---- MODULE Spec2Model ----
(***************************************************************************)
(* Job-search tracker API: the statistics aggregation engine               *)
(* (app/services/statistics_service.py) over the positions and interviews  *)
(* tables, together with the handlers that fill those tables.              *)
(*                                                                         *)
(* Specifications:                                                         *)
(*   Spec          positions and interviews are created, statistics asked  *)
(*   SpecCalc      one primitive of the engine called on given lists       *)
(*   SpecStore     every request that reads or edits a position or an      *)
(*                 interview (app/api/positions.py, app/api/interviews.py) *)
(*   SpecLoop      the month-generation loop, one iteration per step       *)
(*   SpecRegister  registrations (AuthService.register_user) interleaved   *)
(*                                                                         *)
(* Representation of Python values:                                        *)
(*   date      [year, month, day]                                          *)
(*   datetime  [year, month, day, hour]                                    *)
(*   str       a company name is a sequence of one-character strings       *)
(*   float     a value rounded to n decimals is the integer value * 10^n   *)
(*             (a rate 66.67 is 6667, an average of 3.0 days is 30)        *)
(*   dict      a function whose DOMAIN is the key set; record fields are   *)
(*             written in alphabetical order                               *)
(*   Optional  None is the empty tuple, a present value v is <<v>>          *)
(***************************************************************************)
EXTENDS Integers, Sequences, FiniteSets, TLC

\* TLC keeps the fields of a record in the order in which the field names
\* first occur in the module: the record constructors of this module list their
\* fields in the alphabetical order fixed here.
FieldOrder ==
    [ application_date : {}, application_to_interview_rate : {},
      applications : {}, applications_per_month : {}, arg : {},
      average_interview_to_decision_days : {},
      average_interviews_per_position : {}, average_response_time_days : {},
      companies : {}, company : {}, company_name : {}, count : {}, current : {},
      day : {}, detail : {}, email : {},
      end_date : {}, error : {}, existing_user : {}, filters : {}, hour : {}, id : {},
      interview_outcome_breakdown : {}, interview_rate : {},
      interview_to_offer_rate : {}, interview_type_breakdown : {},
      interviews : {}, interviews_conducted : {}, interviews_per_month : {},
      latest_application_date : {}, limit : {}, missing : {}, month : {},
      monthly_counts : {}, monthly_stats : {}, notes : {},
      offer_rate : {}, offers : {}, offers_received : {}, op : {},
      outcome : {}, overall_success_rate : {}, pc : {}, period_end : {},
      period_start : {}, position_id : {}, positions : {},
      positions_applied : {}, positions_by_status : {}, response_rate : {},
      result : {}, scheduled_date : {}, start_date : {}, status : {},
      status_breakdown : {}, status_code : {}, success_rate : {}, today : {},
      total : {}, total_applications : {}, total_companies : {}, total_interviews : {},
      total_positions : {}, type : {}, updated_at : {}, user_id : {},
      year : {} ]

VARIABLES positions, interviews, response, users, sessions

vars == <<positions, interviews, response, users, sessions>>

\* Optional values
None == <<>>
Some(v) == <<v>>
Get(opt) == opt[1]

\* ------------------------------------------------------------------ bounds
\* rows in the positions and interviews tables together
MaxRows == 3
\* length of a list handed to an aggregation primitive
MaxLen == 3
\* the longest period of a month-generation loop that is followed step by step,
\* in months from the month of start to the month of end
MaxMonths == 4

\* ------------------------------------------------------------ enumerations
\* the model enums (app/models) and the schema enums (app/schemas/enums.py);
\* a member is represented by its value
PositionStatus == {"applied", "screening", "interviewing", "offer", "rejected", "withdrawn"}
InterviewType == {"technical", "behavioral", "hr", "final"}
InterviewOutcome == {"pending", "passed", "failed", "cancelled"}
SchemaPositionStatus == {"applied", "screening", "interviewing", "offer", "rejected", "withdrawn"}
SchemaInterviewType == {"technical", "behavioral", "hr", "final"}
SchemaInterviewOutcome == {"pending", "passed", "failed", "cancelled"}

\* Enum(value): the member of enumeration E with that value
EnumByValue(E, value) == IF value \in E THEN value ELSE "ValueError"

\* --------------------------------------------------------- dates and times
D(y, m, d) == [day |-> d, month |-> m, year |-> y]
DT(y, m, d, h) == [day |-> d, hour |-> h, month |-> m, year |-> y]

\* datetime.date(): the calendar date of a timestamp
date_of(dt) == [day |-> dt.day, month |-> dt.month, year |-> dt.year]

\* a <= b on dates
DateLE(a, b) ==
    \/ a.year < b.year
    \/ a.year = b.year /\ a.month < b.month
    \/ a.year = b.year /\ a.month = b.month /\ a.day <= b.day

\* a <= b on timestamps
DateTimeLE(a, b) ==
    \/ date_of(a) # date_of(b) /\ DateLE(date_of(a), date_of(b))
    \/ date_of(a) = date_of(b) /\ a.hour <= b.hour

IsLeap(y) == (y % 4 = 0) /\ ((y % 100 # 0) \/ (y % 400 = 0))

DaysInMonth(y, m) ==
    IF m = 2 THEN (IF IsLeap(y) THEN 29 ELSE 28)
    ELSE IF m \in {4, 6, 9, 11} THEN 30 ELSE 31

RECURSIVE DaysBeforeMonth(_, _)
DaysBeforeMonth(y, m) ==
    IF m = 1 THEN 0 ELSE DaysBeforeMonth(y, m - 1) + DaysInMonth(y, m - 1)

\* date.toordinal(): the proleptic Gregorian day number
toordinal(d) ==
    LET y == d.year - 1
    IN  y * 365 + (y \div 4) - (y \div 100) + (y \div 400)
        + DaysBeforeMonth(d.year, d.month) + d.day

\* (a - b).days
days_between(a, b) == toordinal(a) - toordinal(b)

Digit == <<"0", "1", "2", "3", "4", "5", "6", "7", "8", "9">>
Dg(n) == Digit[n + 1]

\* strftime("%Y-%m"): the characters of the month key
month_key(d) ==
    << Dg(d.year \div 1000), Dg((d.year \div 100) % 10), Dg((d.year \div 10) % 10),
       Dg(d.year % 10), "-", Dg(d.month \div 10), Dg(d.month % 10) >>

\* ------------------------------------------------------------- arithmetic
RECURSIVE Pow10(_)
Pow10(n) == IF n = 0 THEN 1 ELSE 10 * Pow10(n - 1)

\* round(p / q, ndigits) for p >= 0, q > 0, as the integer value * 10^ndigits.
\* Python rounds the binary float correctly to the nearest decimal and an
\* exact tie to the even digit; a tie at 2 decimals of a percentage needs a
\* denominator that is a multiple of 32, at 1 decimal a multiple of 4, where
\* the quotient is exact in binary.
round(p, q, ndigits) ==
    LET x   == p * Pow10(ndigits)
        fl  == x \div q
        rem == x % q
    IN  IF 2 * rem < q THEN fl
        ELSE IF 2 * rem > q THEN fl + 1
        ELSE IF fl % 2 = 0 THEN fl ELSE fl + 1

\* ------------------------------------------------------- sequence helpers
Range(s) == {s[i] : i \in DOMAIN s}

RECURSIVE SelectIdx(_, _, _)
\* the subsequence of s at the indices in keep, in order
SelectIdx(s, keep, i) ==
    IF i > Len(s) THEN <<>>
    ELSE (IF i \in keep THEN <<s[i]>> ELSE <<>>) \o SelectIdx(s, keep, i + 1)

RECURSIVE SumSeq(_)
SumSeq(s) == IF s = <<>> THEN 0 ELSE Head(s) + SumSeq(Tail(s))

\* collections.Counter(values): keys are the values present
Counter(values) ==
    [v \in Range(values) |-> Cardinality({i \in DOMAIN values : values[i] = v})]

\* dict.get(key, default)
DictGet(d, key, default) == IF key \in DOMAIN d THEN d[key] ELSE default

SeqsUpTo(S, n) == UNION {[1..k -> S] : k \in 0..n}

\* --------------------------------------------------------------- table rows
PositionRow(id, user_id, company, status, application_date, updated_at) ==
    [application_date |-> application_date, company |-> company, id |-> id,
     status |-> status, updated_at |-> updated_at, user_id |-> user_id]

InterviewRow(id, position_id, type, outcome, scheduled_date) ==
    [id |-> id, notes |-> None, outcome |-> outcome, position_id |-> position_id,
     scheduled_date |-> scheduled_date, type |-> type]

status_of(pos) == pos.status
type_of(interview) == interview.type
outcome_of(interview) == interview.outcome

\* ------------------------------------------------- aggregation primitives
\* variant: the percentage is cut to 2 decimals instead of rounded
_calculate_response_rate_truncated(ps) ==
    IF ps = <<>> THEN 0
    ELSE LET responses == Cardinality({i \in DOMAIN ps : ps[i].status # "applied"})
         IN  (responses * 10000) \div Len(ps)

_calculate_response_rate(ps) ==
    IF ps = <<>> THEN 0
    ELSE LET responses == Cardinality({i \in DOMAIN ps : ps[i].status # "applied"})
         IN  round(responses * 100, Len(ps), 2)

\* variant: every interview counts, not every position with an interview
_calculate_interview_rate_per_interview(ps, ivs) ==
    IF ps = <<>> THEN 0
    ELSE round(Len(ivs) * 100, Len(ps), 2)

_calculate_interview_rate(ps, ivs) ==
    IF ps = <<>> THEN 0
    ELSE LET positions_with_interviews == {ivs[i].position_id : i \in DOMAIN ivs}
         IN  round(Cardinality(positions_with_interviews) * 100, Len(ps), 2)

_calculate_offer_rate(ps) ==
    IF ps = <<>> THEN 0
    ELSE LET offers == Cardinality({i \in DOMAIN ps : ps[i].status = "offer"})
         IN  round(offers * 100, Len(ps), 2)

\* variant: only the statuses that occur are keys
_calculate_status_breakdown_present_only(ps) == Counter([i \in DOMAIN ps |-> status_of(ps[i])])

_calculate_status_breakdown(ps) ==
    LET status_counts == Counter([i \in DOMAIN ps |-> status_of(ps[i])])
    IN  [status \in SchemaPositionStatus |->
            DictGet(status_counts, EnumByValue(PositionStatus, status), 0)]

_calculate_interview_type_breakdown(ivs) ==
    LET type_counts == Counter([i \in DOMAIN ivs |-> type_of(ivs[i])])
    IN  [interview_type \in SchemaInterviewType |->
            DictGet(type_counts, EnumByValue(InterviewType, interview_type), 0)]

_calculate_interview_outcome_breakdown(ivs) ==
    LET outcome_counts == Counter([i \in DOMAIN ivs |-> outcome_of(ivs[i])])
    IN  [outcome \in SchemaInterviewOutcome |->
            DictGet(outcome_counts, EnumByValue(InterviewOutcome, outcome), 0)]

\* variant: December is followed by January of the same year
next_month_of_the_same_year(current) ==
    IF current.month = 12
    THEN [current EXCEPT !.month = 1]
    ELSE [current EXCEPT !.month = current.month + 1]

\* "Move to next month" of the month-generation loop
next_month(current) ==
    IF current.month = 12
    THEN [current EXCEPT !.year = current.year + 1, !.month = 1]
    ELSE [current EXCEPT !.month = current.month + 1]

RECURSIVE month_loop_skipping_empty(_, _, _)
\* variant: a month without items gets no entry
month_loop_skipping_empty(current, end_date, monthly_counts) ==
    IF ~DateLE(current, end_date) THEN <<>>
    ELSE (IF month_key(current) \in DOMAIN monthly_counts
          THEN << [count |-> monthly_counts[month_key(current)],
                   month |-> month_key(current)] >>
          ELSE <<>>)
         \o month_loop_skipping_empty(next_month(current), end_date, monthly_counts)

RECURSIVE month_loop(_, _, _)
\* while current <= end_date: append {"month", "count"}, move to next month
month_loop(current, end_date, monthly_counts) ==
    IF ~DateLE(current, end_date) THEN <<>>
    ELSE << [count |-> DictGet(monthly_counts, month_key(current), 0),
             month |-> month_key(current)] >>
         \o month_loop(next_month(current), end_date, monthly_counts)

\* variant: every item is counted, whatever its date
monthly_counts_of_all_items(dates, start_date, end_date) ==
    [k \in {month_key(dates[i]) : i \in DOMAIN dates} |->
        Cardinality({i \in DOMAIN dates : month_key(dates[i]) = k})]

\* the defaultdict(int) filled by the first loop over item dates
monthly_counts_of(dates, start_date, end_date) ==
    LET inrange == {i \in DOMAIN dates :
                        DateLE(start_date, dates[i]) /\ DateLE(dates[i], end_date)}
    IN  [k \in {month_key(dates[i]) : i \in inrange} |->
            Cardinality({i \in inrange : month_key(dates[i]) = k})]

\* variant: the loop starts at start_date, not at the first of its month
_calculate_applications_per_month_from_start_day(ps, start_date, end_date) ==
    LET dates == [i \in DOMAIN ps |-> ps[i].application_date]
    IN  month_loop(start_date, end_date,
                   monthly_counts_of(dates, start_date, end_date))

_calculate_applications_per_month(ps, start_date, end_date) ==
    LET dates == [i \in DOMAIN ps |-> ps[i].application_date]
    IN  month_loop([start_date EXCEPT !.day = 1], end_date,
                   monthly_counts_of(dates, start_date, end_date))

_calculate_interviews_per_month(ivs, start_date, end_date) ==
    LET dates == [i \in DOMAIN ivs |-> date_of(ivs[i].scheduled_date)]
    IN  month_loop([start_date EXCEPT !.day = 1], end_date,
                   monthly_counts_of(dates, start_date, end_date))

\* ----------------------------------------------------------- data access
\* str.lower() on the characters the model uses
UpperLetters == <<"A", "B", "C", "E", "M", "T">>
LowerLetters == <<"a", "b", "c", "e", "m", "t">>
LowerChar(ch) ==
    IF \E n \in DOMAIN UpperLetters : UpperLetters[n] = ch
    THEN LowerLetters[CHOOSE n \in DOMAIN UpperLetters : UpperLetters[n] = ch]
    ELSE ch
Lower(str) == [i \in DOMAIN str |-> LowerChar(str[i])]

\* column.ilike("%" + pattern + "%") for a pattern without wildcards
ilike_contains(str, pattern) ==
    \E k \in 0..(Len(str) - Len(pattern)) :
        \A j \in 1..Len(pattern) : Lower(str)[k + j] = Lower(pattern)[j]

StatisticsFilters(start_date, end_date, company, status) ==
    [company |-> company, end_date |-> end_date,
     start_date |-> start_date, status |-> status]

\* truthiness of an Optional[str]
Truthy(v) == v # None /\ Get(v) # <<>>

\* variant: the positions of every user
query_positions_of_all_users(tbl, user_id) == tbl

\* db.query(Position).filter(Position.user_id == user_id)
query_positions(tbl, user_id) ==
    SelectIdx(tbl, {i \in DOMAIN tbl : tbl[i].user_id = user_id}, 1)

\* variant: the company filter matches the case of the letters too
_apply_position_filters_matching_case(query, filters) ==
    LET like_contains(str, pattern) ==
            \E k \in 0..(Len(str) - Len(pattern)) :
                \A j \in 1..Len(pattern) : str[k + j] = pattern[j]
    IN  SelectIdx(query,
            {i \in DOMAIN query :
                /\ filters.start_date # None =>
                       DateLE(Get(filters.start_date), query[i].application_date)
                /\ filters.end_date # None =>
                       DateLE(query[i].application_date, Get(filters.end_date))
                /\ Truthy(filters.company) =>
                       like_contains(query[i].company, Get(filters.company))
                /\ filters.status # None => query[i].status = Get(filters.status)},
            1)

_apply_position_filters(query, filters) ==
    SelectIdx(query,
        {i \in DOMAIN query :
            /\ filters.start_date # None =>
                   DateLE(Get(filters.start_date), query[i].application_date)
            /\ filters.end_date # None =>
                   DateLE(query[i].application_date, Get(filters.end_date))
            /\ Truthy(filters.company) =>
                   ilike_contains(query[i].company, Get(filters.company))
            /\ filters.status # None => query[i].status = Get(filters.status)},
        1)

\* the positions a statistics view fetches
fetch_positions(tbl, user_id, filters) ==
    IF filters # None
    THEN _apply_position_filters(query_positions(tbl, user_id), Get(filters))
    ELSE query_positions(tbl, user_id)

\* Interview.position_id.in_(position_ids) if position_ids else filter(False)
fetch_interviews(itbl, ps) ==
    LET position_ids == {ps[i].id : i \in DOMAIN ps}
    IN  IF ps # <<>>
        THEN SelectIdx(itbl, {i \in DOMAIN itbl : itbl[i].position_id \in position_ids}, 1)
        ELSE <<>>

\* the relationship Position.interviews
interviews_of(itbl, pos) ==
    SelectIdx(itbl, {i \in DOMAIN itbl : itbl[i].position_id = pos.id}, 1)

\* ------------------------------------------------------ response schemas
\* pydantic BaseModel(**kwargs): a missing required field raises
\* ValidationError, a keyword that is not a field is ignored
BaseModel(required, optional, kwargs) ==
    IF required \subseteq DOMAIN kwargs
    THEN [f \in (required \cup (optional \cap DOMAIN kwargs)) |-> kwargs[f]]
    ELSE [error |-> "ValidationError", missing |-> required \ DOMAIN kwargs]

Raised(result) == "error" \in DOMAIN result

StatisticsOverview(kwargs) ==
    BaseModel({"total_applications", "total_companies", "total_interviews",
               "response_rate", "interview_rate", "offer_rate", "status_breakdown",
               "interview_type_breakdown", "interview_outcome_breakdown"}, {}, kwargs)

\* ------------------------------------------------------------------ views
get_overview_statistics(tbl, itbl, user_id, filters) ==
    LET ps == fetch_positions(tbl, user_id, filters)
        total_applications == Len(ps)
        total_companies == Cardinality({ps[i].company : i \in DOMAIN ps})
        ivs == fetch_interviews(itbl, ps)
        total_interviews == Len(ivs)
    IN  StatisticsOverview(
            [interview_outcome_breakdown |-> _calculate_interview_outcome_breakdown(ivs),
             interview_rate |-> _calculate_interview_rate(ps, ivs),
             interview_type_breakdown |-> _calculate_interview_type_breakdown(ivs),
             offer_rate |-> _calculate_offer_rate(ps),
             positions_by_status |-> _calculate_status_breakdown(ps),
             response_rate |-> _calculate_response_rate(ps),
             total_companies |-> total_companies,
             total_interviews |-> total_interviews,
             total_positions |-> total_applications])

MinDate(dates) == CHOOSE d \in Range(dates) : \A e \in Range(dates) : DateLE(d, e)
MaxDate(dates) == CHOOSE d \in Range(dates) : \A e \in Range(dates) : DateLE(e, d)

\* min(list, key=lambda x: x.scheduled_date): the first of the earliest
EarliestInterview(list) ==
    list[CHOOSE j \in DOMAIN list :
            \A k \in DOMAIN list :
                /\ DateTimeLE(list[j].scheduled_date, list[k].scheduled_date)
                /\ (list[k].scheduled_date = list[j].scheduled_date => j <= k)]

\* max(list, key=lambda x: x.scheduled_date): the first of the latest
LatestInterview(list) ==
    list[CHOOSE j \in DOMAIN list :
            \A k \in DOMAIN list :
                /\ DateTimeLE(list[k].scheduled_date, list[j].scheduled_date)
                /\ (list[k].scheduled_date = list[j].scheduled_date => j <= k)]

\* round(sum(times) / len(times), 1) if times else None
average_or_none(times) ==
    IF times # <<>> THEN Some(round(SumSeq(times), Len(times), 1)) ELSE None

\* variant: a position still in status applied is skipped
_calculate_average_response_time_of_responded(ps, ivs) ==
    LET position_interviews(pos) == interviews_of(ivs, pos)
        has_interviews(pos) == position_interviews(pos) # <<>>
        days_diff(pos) ==
            IF has_interviews(pos)
            THEN days_between(
                    date_of(EarliestInterview(position_interviews(pos)).scheduled_date),
                    pos.application_date)
            ELSE 0
        counted == {i \in DOMAIN ps :
                        /\ ps[i].status # "applied"
                        /\ has_interviews(ps[i])
                        /\ days_diff(ps[i]) >= 0}
        response_times == SelectIdx([i \in DOMAIN ps |-> days_diff(ps[i])], counted, 1)
    IN  average_or_none(response_times)

_calculate_average_response_time(ps, ivs) ==
    LET position_interviews(pos) == interviews_of(ivs, pos)
        has_interviews(pos) == position_interviews(pos) # <<>>
        days_diff(pos) ==
            IF has_interviews(pos)
            THEN days_between(
                    date_of(EarliestInterview(position_interviews(pos)).scheduled_date),
                    pos.application_date)
            ELSE 0
        counted == {i \in DOMAIN ps :
                        /\ ~(ps[i].status = "applied" /\ ~has_interviews(ps[i]))
                        /\ has_interviews(ps[i])
                        /\ days_diff(ps[i]) >= 0}
        response_times == SelectIdx([i \in DOMAIN ps |-> days_diff(ps[i])], counted, 1)
    IN  average_or_none(response_times)

\* variant: the decision is measured from the first interview
_calculate_average_first_interview_to_decision_time(ps, ivs) ==
    LET position_interviews(pos) == interviews_of(ivs, pos)
        has_interviews(pos) == position_interviews(pos) # <<>>
        days_diff(pos) ==
            IF has_interviews(pos)
            THEN days_between(
                    date_of(pos.updated_at),
                    date_of(EarliestInterview(position_interviews(pos)).scheduled_date))
            ELSE 0
        counted == {i \in DOMAIN ps :
                        /\ ps[i].status \in {"offer", "rejected"}
                        /\ has_interviews(ps[i])
                        /\ days_diff(ps[i]) >= 0}
        decision_times == SelectIdx([i \in DOMAIN ps |-> days_diff(ps[i])], counted, 1)
    IN  average_or_none(decision_times)

_calculate_average_interview_to_decision_time(ps, ivs) ==
    LET position_interviews(pos) == interviews_of(ivs, pos)
        has_interviews(pos) == position_interviews(pos) # <<>>
        days_diff(pos) ==
            IF has_interviews(pos)
            THEN days_between(
                    date_of(pos.updated_at),
                    date_of(LatestInterview(position_interviews(pos)).scheduled_date))
            ELSE 0
        counted == {i \in DOMAIN ps :
                        /\ ps[i].status \in {"offer", "rejected"}
                        /\ has_interviews(ps[i])
                        /\ days_diff(ps[i]) >= 0}
        decision_times == SelectIdx([i \in DOMAIN ps |-> days_diff(ps[i])], counted, 1)
    IN  average_or_none(decision_times)

TimelineStatistics(kwargs) ==
    BaseModel({"period_start", "period_end", "applications_per_month",
               "interviews_per_month"},
              {"average_response_time_days", "average_interview_to_decision_days"},
              kwargs)

\* variant: a start_date or an end_date supplied alone is used too
timeline_period_from_either_date(ps, filters, today) ==
    LET dates == [i \in DOMAIN ps |-> ps[i].application_date]
        given(opt) == filters # None /\ opt # None
    IN  IF dates # <<>>
        THEN <<IF given(Get(filters).start_date)
               THEN Get(Get(filters).start_date) ELSE MinDate(dates),
               IF given(Get(filters).end_date)
               THEN Get(Get(filters).end_date) ELSE MaxDate(dates)>>
        ELSE IF given(Get(filters).start_date) /\ given(Get(filters).end_date)
        THEN <<Get(Get(filters).start_date), Get(Get(filters).end_date)>>
        ELSE <<[today EXCEPT !.day = 1], today>>

\* the reporting period of the timeline; today is date.today()
timeline_period(ps, filters, today) ==
    IF filters # None /\ Get(filters).start_date # None /\ Get(filters).end_date # None
    THEN <<Get(Get(filters).start_date), Get(Get(filters).end_date)>>
    ELSE LET dates == [i \in DOMAIN ps |-> ps[i].application_date]
         IN  IF dates # <<>>
             THEN <<MinDate(dates), MaxDate(dates)>>
             ELSE <<[today EXCEPT !.day = 1], today>>

get_timeline_statistics(tbl, itbl, user_id, filters, today) ==
    LET ps == fetch_positions(tbl, user_id, filters)
        period == timeline_period(ps, filters, today)
        ivs == fetch_interviews(itbl, ps)
    IN  TimelineStatistics(
            [applications_per_month |->
                 _calculate_applications_per_month(ps, period[1], period[2]),
             average_interview_to_decision_days |->
                 _calculate_average_interview_to_decision_time(ps, ivs),
             average_response_time_days |-> _calculate_average_response_time(ps, ivs),
             interviews_per_month |->
                 _calculate_interviews_per_month(ivs, period[1], period[2]),
             period_end |-> period[2],
             period_start |-> period[1]])

CompanyStatistics(kwargs) ==
    BaseModel({"company_name", "total_applications", "total_interviews",
               "status_breakdown", "success_rate"},
              {"latest_application_date"}, kwargs)

CompanyStatisticsResponse(kwargs) ==
    BaseModel({"companies", "total_companies"}, {}, kwargs)

\* variant: the success rate is the share of positions past status applied
_calculate_company_statistics_with_response_rate(company_name, ps, ivs) ==
    CompanyStatistics(
        [company_name |-> company_name,
         latest_application_date |->
             IF ps # <<>>
             THEN Some(MaxDate([i \in DOMAIN ps |-> ps[i].application_date]))
             ELSE None,
         status_breakdown |-> _calculate_status_breakdown(ps),
         success_rate |-> _calculate_response_rate(ps),
         total_applications |-> Len(ps),
         total_interviews |-> Len(ivs)])

_calculate_company_statistics(company_name, ps, ivs) ==
    LET total_applications == Len(ps)
        offers == Cardinality({i \in DOMAIN ps : ps[i].status = "offer"})
    IN  CompanyStatistics(
            [company_name |-> company_name,
             latest_application_date |->
                 IF ps # <<>>
                 THEN Some(MaxDate([i \in DOMAIN ps |-> ps[i].application_date]))
                 ELSE None,
             status_breakdown |-> _calculate_status_breakdown(ps),
             success_rate |->
                 IF total_applications > 0
                 THEN round(offers * 100, total_applications, 2) ELSE 0,
             total_applications |-> total_applications,
             total_interviews |-> Len(ivs)])

\* the keys of a dict filled in list order: companies by first occurrence
company_order(ps) ==
    LET first == {i \in DOMAIN ps : \A j \in 1..(i - 1) : ps[j].company # ps[i].company}
        firsts == SelectIdx(ps, first, 1)
    IN  [k \in DOMAIN firsts |-> firsts[k].company]

RECURSIVE Flatten(_)
Flatten(lists) == IF lists = <<>> THEN <<>> ELSE Head(lists) \o Flatten(Tail(lists))

\* comparison of two sort keys, tuples of numbers of one length, as Python
\* compares tuples
RECURSIVE KeyGE(_, _)
KeyGE(a, b) ==
    IF a = <<>> THEN TRUE
    ELSE IF Head(a) # Head(b) THEN Head(a) > Head(b)
    ELSE KeyGE(Tail(a), Tail(b))

\* variant: the ascending sort read backwards, which turns equal keys around
sort_reverse_by_reading_backwards(list, keys) ==
    LET before(j, i) == IF keys[j] = keys[i] THEN j > i ELSE KeyGE(keys[j], keys[i])
        rank(i) == Cardinality({j \in DOMAIN list : j # i /\ before(j, i)}) + 1
    IN  [r \in DOMAIN list |-> list[CHOOSE i \in DOMAIN list : rank(i) = r]]

\* list.sort(key=..., reverse=True) with keys[i] the key of list[i]: stable and
\* descending; an item comes after the items with a greater key and after the
\* earlier items with an equal key
sort_reverse(list, keys) ==
    LET before(j, i) == IF keys[j] = keys[i] THEN j < i ELSE KeyGE(keys[j], keys[i])
        rank(i) == Cardinality({j \in DOMAIN list : j # i /\ before(j, i)}) + 1
    IN  [r \in DOMAIN list |-> list[CHOOSE i \in DOMAIN list : rank(i) = r]]

\* key=lambda x: x.total_applications
by_total_applications(x) == <<x.total_applications>>

get_company_statistics(tbl, itbl, user_id, filters) ==
    LET ps == fetch_positions(tbl, user_id, filters)
        names == company_order(ps)
        company_positions(name) ==
            SelectIdx(ps, {i \in DOMAIN ps : ps[i].company = name}, 1)
        ivs == fetch_interviews(itbl, ps)
        company_interviews(name) ==
            LET company_pos == company_positions(name)
            IN  Flatten([i \in DOMAIN company_pos |-> interviews_of(ivs, company_pos[i])])
        company_stats ==
            [k \in DOMAIN names |->
                _calculate_company_statistics(
                    names[k], company_positions(names[k]), company_interviews(names[k]))]
        sorted == sort_reverse(company_stats,
                  [i \in DOMAIN company_stats |-> by_total_applications(company_stats[i])])
    IN  CompanyStatisticsResponse(
            [companies |-> sorted, total_companies |-> Len(sorted)])

\* variant: application_to_interview_rate is the share of positions with an
\* interview
get_success_rates_of_interviewed_positions(tbl, itbl, user_id) ==
    LET ps == query_positions(tbl, user_id)
        total_applications == Len(ps)
        total_interviews ==
            SumSeq([i \in DOMAIN ps |-> Len(interviews_of(itbl, ps[i]))])
        interviewed == Cardinality({i \in DOMAIN ps : interviews_of(itbl, ps[i]) # <<>>})
        total_offers == Cardinality({i \in DOMAIN ps : ps[i].status = "offer"})
    IN  IF ps = <<>>
        THEN [application_to_interview_rate |-> 0,
              average_interviews_per_position |-> 0,
              interview_to_offer_rate |-> 0,
              overall_success_rate |-> 0]
        ELSE [application_to_interview_rate |->
                  round(interviewed * 100, total_applications, 2),
              average_interviews_per_position |->
                  round(total_interviews, total_applications, 2),
              interview_to_offer_rate |->
                  IF total_interviews > 0
                  THEN round(total_offers * 100, total_interviews, 2) ELSE 0,
              overall_success_rate |->
                  round(total_offers * 100, total_applications, 2)]

get_success_rates(tbl, itbl, user_id) ==
    LET ps == query_positions(tbl, user_id)
        total_applications == Len(ps)
        total_interviews ==
            SumSeq([i \in DOMAIN ps |-> Len(interviews_of(itbl, ps[i]))])
        total_offers == Cardinality({i \in DOMAIN ps : ps[i].status = "offer"})
    IN  IF ps = <<>>
        THEN [application_to_interview_rate |-> 0,
              average_interviews_per_position |-> 0,
              interview_to_offer_rate |-> 0,
              overall_success_rate |-> 0]
        ELSE [application_to_interview_rate |->
                  IF total_applications > 0
                  THEN round(total_interviews * 100, total_applications, 2) ELSE 0,
              average_interviews_per_position |->
                  IF total_applications > 0
                  THEN round(total_interviews, total_applications, 2) ELSE 0,
              interview_to_offer_rate |->
                  IF total_interviews > 0
                  THEN round(total_offers * 100, total_interviews, 2) ELSE 0,
              overall_success_rate |->
                  IF total_applications > 0
                  THEN round(total_offers * 100, total_applications, 2) ELSE 0]

\* variant: key=lambda x: x['success_rate']
by_success_rate(x) == <<x.success_rate>>

\* key=lambda x: (x['success_rate'], x['applications'])
by_success_rate_then_applications(x) == <<x.success_rate, x.applications>>

\* list[:limit]
slice_to(list, limit) ==
    LET stop == IF limit >= 0
                THEN (IF limit < Len(list) THEN limit ELSE Len(list))
                ELSE (IF Len(list) + limit > 0 THEN Len(list) + limit ELSE 0)
    IN  SubSeq(list, 1, stop)

get_top_companies(tbl, itbl, user_id, limit) ==
    LET ps == query_positions(tbl, user_id)
        names == company_order(ps)
        group(name) == {i \in DOMAIN ps : ps[i].company = name}
        stats(name) ==
            LET applications == Cardinality(group(name))
                offers == Cardinality({i \in group(name) : ps[i].status = "offer"})
            IN  [applications |-> applications,
                 company |-> name,
                 interviews |->
                     SumSeq([i \in DOMAIN ps |->
                         IF i \in group(name) THEN Len(interviews_of(itbl, ps[i])) ELSE 0]),
                 offers |-> offers,
                 success_rate |->
                     IF applications > 0 THEN round(offers * 100, applications, 2) ELSE 0]
        top_companies == [k \in DOMAIN names |-> stats(names[k])]
    IN  IF ps = <<>> THEN <<>>
        ELSE slice_to(sort_reverse(top_companies,
                  [i \in DOMAIN top_companies |->
                      by_success_rate_then_applications(top_companies[i])]), limit)

MonthName == <<"January", "February", "March", "April", "May", "June", "July",
               "August", "September", "October", "November", "December">>

\* variant: the positions of every year are counted in their month
get_monthly_statistics_of_every_year(tbl, itbl, user_id, year) ==
    LET ps == query_positions(tbl, user_id)
        interviews_in(pos, month) ==
            LET list == interviews_of(itbl, pos)
            IN  Cardinality({j \in DOMAIN list :
                                /\ list[j].scheduled_date.year = year
                                /\ list[j].scheduled_date.month = month})
    IN  [month \in 1..12 |->
            [interviews_conducted |->
                 SumSeq([i \in DOMAIN ps |-> interviews_in(ps[i], month)]),
             month |-> MonthName[month],
             offers_received |->
                 Cardinality({i \in DOMAIN ps :
                                 /\ ps[i].status = "offer"
                                 /\ ps[i].updated_at.year = year
                                 /\ ps[i].updated_at.month = month}),
             positions_applied |->
                 Cardinality({i \in DOMAIN ps : ps[i].application_date.month = month})]]

get_monthly_statistics(tbl, itbl, user_id, year) ==
    LET all == query_positions(tbl, user_id)
        ps == SelectIdx(all, {i \in DOMAIN all : all[i].application_date.year = year}, 1)
        interviews_in(pos, month) ==
            LET list == interviews_of(itbl, pos)
            IN  Cardinality({j \in DOMAIN list :
                                /\ list[j].scheduled_date.year = year
                                /\ list[j].scheduled_date.month = month})
    IN  [month \in 1..12 |->
            [interviews_conducted |->
                 SumSeq([i \in DOMAIN ps |-> interviews_in(ps[i], month)]),
             month |-> MonthName[month],
             offers_received |->
                 Cardinality({i \in DOMAIN ps :
                                 /\ ps[i].status = "offer"
                                 /\ ps[i].updated_at.year = year
                                 /\ ps[i].updated_at.month = month}),
             positions_applied |->
                 Cardinality({i \in DOMAIN ps : ps[i].application_date.month = month})]]

\* ------------------------------------------------------------ HTTP layer
\* the statistics endpoints build a filter object only if a parameter is given
api_filters(start_date, end_date, company, status) ==
    IF start_date # None \/ end_date # None \/ Truthy(company) \/ status # None
    THEN Some(StatisticsFilters(start_date, end_date, company, status))
    ELSE None

Response(op, user_id, arg, result) ==
    [arg |-> arg, op |-> op, result |-> result, user_id |-> user_id]

\* variant: the position with that id, whoever owns it
get_by_id_of_any_user(tbl, position_id, user_id) ==
    SelectIdx(tbl, {i \in DOMAIN tbl : tbl[i].id = position_id}, 1)

\* PositionRepository.get_by_id: the position with that id owned by the user
get_by_id(tbl, position_id, user_id) ==
    SelectIdx(tbl, {i \in DOMAIN tbl :
                        tbl[i].id = position_id /\ tbl[i].user_id = user_id}, 1)

\* uuid4(): an identifier no row of the table carries; the identifier of a
\* deleted row may come again, which uuid4 does not do and which adds
\* behaviours to those of the program
new_id(tbl) == CHOOSE n \in 1..(Len(tbl) + 1) : \A i \in DOMAIN tbl : tbl[i].id # n

\* POST /positions/: now is the server time that stamps updated_at
create_position(user_id, position_data, now) ==
    /\ LET db_position == PositionRow(new_id(positions), user_id,
                                      position_data.company, position_data.status,
                                      position_data.application_date, now)
       IN  /\ positions' = Append(positions, db_position)
           /\ response' = Response("create_position", user_id, None,
                                   [id |-> db_position.id, status_code |-> 201])
    /\ UNCHANGED interviews

\* POST /positions/{position_id}/interviews
create_interview(user_id, position_id, interview_data) ==
    /\ IF get_by_id(positions, position_id, user_id) = <<>>
       THEN /\ response' = Response("create_interview", user_id, None,
                                    [id |-> position_id, status_code |-> 404])
            /\ UNCHANGED interviews
       ELSE LET db_interview == InterviewRow(new_id(interviews), position_id,
                                            interview_data.type, interview_data.outcome,
                                            interview_data.scheduled_date)
            IN  /\ interviews' = Append(interviews, db_interview)
                /\ response' = Response("create_interview", user_id, None,
                                        [id |-> db_interview.id, status_code |-> 201])
    /\ UNCHANGED positions

\* ------------------------------------------------- positions and interviews
\* A request body of an update is the dictionary of the fields that were set
\* (model_dump(exclude_unset=True)); a field that was not set reads as None.
field_of(data, field) == IF field \in DOMAIN data THEN Some(data[field]) ELSE None

\* setattr(row, field, value) for every field that was set
set_fields(row, update_data) ==
    [f \in DOMAIN row |-> IF f \in DOMAIN update_data THEN update_data[f] ELSE row[f]]

\* updated_at has onupdate=func.now(): a row that a commit changes is stamped
stamp(row, changed, now) ==
    IF changed = row THEN row ELSE [changed EXCEPT !.updated_at = now]

\* the rows of list in the order perm: an ORDER BY leaves the order of rows
\* with equal keys to the database
Perms(n) == {f \in [1..n -> 1..n] : \A i, j \in 1..n : i # j => f[i] # f[j]}
in_order(list, perm) == [i \in DOMAIN list |-> list[perm[i]]]

\* PositionRepository.get_all_for_user without filters: sorted by
\* application_date, latest first
is_desc_by_application_date(list) ==
    \A i, j \in DOMAIN list :
        i < j => DateLE(list[j].application_date, list[i].application_date)

\* PositionRepository.update
position_update(tbl, position_id, user_id, update_data, now) ==
    [i \in DOMAIN tbl |->
        IF tbl[i].id = position_id /\ tbl[i].user_id = user_id
        THEN stamp(tbl[i], set_fields(tbl[i], update_data), now)
        ELSE tbl[i]]

\* PositionRepository.update_status
update_status(tbl, position_id, user_id, status, now) ==
    [i \in DOMAIN tbl |->
        IF tbl[i].id = position_id /\ tbl[i].user_id = user_id
        THEN stamp(tbl[i], [tbl[i] EXCEPT !.status = status], now)
        ELSE tbl[i]]

\* variant: the interviews of a deleted position stay in the table
cascade_delete_keeping_interviews(itbl, position_id) == itbl

\* Position.interviews has cascade="all, delete-orphan": the interviews of a
\* deleted position are deleted in the same commit
cascade_delete(itbl, position_id) ==
    SelectIdx(itbl, {j \in DOMAIN itbl : itbl[j].position_id # position_id}, 1)

\* PositionRepository.delete, the table of positions after it
position_delete(tbl, position_id, user_id) ==
    SelectIdx(tbl, {i \in DOMAIN tbl :
                       ~(tbl[i].id = position_id /\ tbl[i].user_id = user_id)}, 1)

\* InterviewRepository.get_by_id
interview_get_by_id(itbl, interview_id) ==
    SelectIdx(itbl, {j \in DOMAIN itbl : itbl[j].id = interview_id}, 1)

\* InterviewRepository.get_by_position, before the ORDER BY
get_by_position(itbl, position_id) ==
    SelectIdx(itbl, {j \in DOMAIN itbl : itbl[j].position_id = position_id}, 1)

is_asc_by_scheduled_date(list) ==
    \A i, j \in DOMAIN list :
        i < j => DateTimeLE(list[i].scheduled_date, list[j].scheduled_date)

\* InterviewRepository.update
interview_update(itbl, interview_id, update_data) ==
    [j \in DOMAIN itbl |->
        IF itbl[j].id = interview_id THEN set_fields(itbl[j], update_data) ELSE itbl[j]]

\* InterviewRepository.delete, the table of interviews after it
interview_delete(itbl, interview_id) ==
    SelectIdx(itbl, {j \in DOMAIN itbl : itbl[j].id # interview_id}, 1)

\* the interview if it exists and its position belongs to the user, else None
verify_interview_ownership(tbl, itbl, interview_id, user_id) ==
    LET interview == interview_get_by_id(itbl, interview_id)
    IN  IF interview = <<>> THEN None
        ELSE IF get_by_id(tbl, interview[1].position_id, user_id) = <<>> THEN None
        ELSE Some(interview[1])

NotFound == [status_code |-> 404]

\* GET /positions/{position_id}
get_position(user_id, position_id) ==
    LET position == get_by_id(positions, position_id, user_id)
    IN  /\ response' = Response("get_position", user_id, [id |-> position_id],
                                IF position = <<>> THEN NotFound
                                ELSE [positions |-> position, status_code |-> 200])
        /\ UNCHANGED <<positions, interviews>>

\* GET /positions/ with the default parameters
list_positions(user_id, perm) ==
    LET found == in_order(query_positions(positions, user_id), perm)
    IN  /\ is_desc_by_application_date(found)
        /\ response' = Response("list_positions", user_id, None,
                                [positions |-> found, status_code |-> 200,
                                 total |-> Len(found)])
        /\ UNCHANGED <<positions, interviews>>

\* PUT /positions/{position_id}
update_position(user_id, position_id, position_data, now) ==
    /\ IF get_by_id(positions, position_id, user_id) = <<>>
       THEN /\ response' = Response("update_position", user_id, [id |-> position_id],
                                    NotFound)
            /\ UNCHANGED positions
       ELSE /\ positions' = position_update(positions, position_id, user_id,
                                            position_data, now)
            /\ response' = Response("update_position", user_id, [id |-> position_id],
                                    [status_code |-> 200])
    /\ UNCHANGED interviews

\* PUT /positions/{position_id}/status
update_position_status(user_id, position_id, status, now) ==
    /\ IF get_by_id(positions, position_id, user_id) = <<>>
       THEN /\ response' = Response("update_position_status", user_id,
                                    [id |-> position_id], NotFound)
            /\ UNCHANGED positions
       ELSE /\ positions' = update_status(positions, position_id, user_id, status, now)
            /\ response' = Response("update_position_status", user_id,
                                    [id |-> position_id], [status_code |-> 200])
    /\ UNCHANGED interviews

\* DELETE /positions/{position_id}
delete_position(user_id, position_id) ==
    IF get_by_id(positions, position_id, user_id) = <<>>
    THEN /\ response' = Response("delete_position", user_id, [id |-> position_id],
                                 NotFound)
         /\ UNCHANGED <<positions, interviews>>
    ELSE /\ positions' = position_delete(positions, position_id, user_id)
         /\ interviews' = cascade_delete(interviews, position_id)
         /\ response' = Response("delete_position", user_id, [id |-> position_id],
                                 [status_code |-> 204])

\* GET /interviews/
get_all_interviews(user_id) ==
    LET user_positions == query_positions(positions, user_id)
        all_interviews ==
            Flatten([i \in DOMAIN user_positions |->
                        get_by_position(interviews, user_positions[i].id)])
    IN  /\ response' = Response("get_all_interviews", user_id, None,
                                [interviews |-> all_interviews, status_code |-> 200])
        /\ UNCHANGED <<positions, interviews>>

\* GET /positions/{position_id}/interviews
list_interviews(user_id, position_id, perm) ==
    /\ IF get_by_id(positions, position_id, user_id) = <<>>
       THEN response' = Response("list_interviews", user_id, [id |-> position_id],
                                 NotFound)
       ELSE LET found == in_order(get_by_position(interviews, position_id), perm)
            IN  /\ is_asc_by_scheduled_date(found)
                /\ response' = Response("list_interviews", user_id,
                                        [id |-> position_id],
                                        [interviews |-> found, status_code |-> 200,
                                         total |-> Len(found)])
    /\ UNCHANGED <<positions, interviews>>

\* GET /interviews/{interview_id}
get_interview(user_id, interview_id) ==
    LET interview == verify_interview_ownership(positions, interviews,
                                                interview_id, user_id)
    IN  /\ response' = Response("get_interview", user_id, [id |-> interview_id],
                                IF interview = None THEN NotFound
                                ELSE [interviews |-> interview, status_code |-> 200])
        /\ UNCHANGED <<positions, interviews>>

\* PUT /interviews/{interview_id}
update_interview(user_id, interview_id, interview_data, now) ==
    LET interview == verify_interview_ownership(positions, interviews,
                                                interview_id, user_id)
        arg == [id |-> interview_id, outcome |-> field_of(interview_data, "outcome")]
    IN  IF interview = None
        THEN /\ response' = Response("update_interview", user_id, arg, NotFound)
             /\ UNCHANGED <<positions, interviews>>
        ELSE /\ interviews' = interview_update(interviews, interview_id, interview_data)
             /\ positions' =
                    IF field_of(interview_data, "outcome") = Some("failed")
                    THEN update_status(positions, Get(interview).position_id, user_id,
                                       "rejected", now)
                    ELSE positions
             /\ response' = Response("update_interview", user_id, arg,
                                     [status_code |-> 200])

\* PATCH /interviews/{interview_id}
patch_interview(user_id, interview_id, interview_data, now) ==
    LET interview == verify_interview_ownership(positions, interviews,
                                                interview_id, user_id)
        arg == [id |-> interview_id, outcome |-> field_of(interview_data, "outcome")]
    IN  IF interview = None
        THEN /\ response' = Response("patch_interview", user_id, arg, NotFound)
             /\ UNCHANGED <<positions, interviews>>
        ELSE /\ interviews' = interview_update(interviews, interview_id, interview_data)
             /\ positions' =
                    IF field_of(interview_data, "outcome") = Some("failed")
                    THEN update_status(positions, Get(interview).position_id, user_id,
                                       "rejected", now)
                    ELSE positions
             /\ response' = Response("patch_interview", user_id, arg,
                                     [status_code |-> 200])

\* DELETE /interviews/{interview_id}
delete_interview(user_id, interview_id) ==
    /\ IF verify_interview_ownership(positions, interviews, interview_id, user_id) = None
       THEN /\ response' = Response("delete_interview", user_id,
                                    [id |-> interview_id], NotFound)
            /\ UNCHANGED interviews
       ELSE /\ interviews' = interview_delete(interviews, interview_id)
            /\ response' = Response("delete_interview", user_id,
                                    [id |-> interview_id], [status_code |-> 204])
    /\ UNCHANGED positions

\* PUT /interviews/{interview_id}/schedule
update_interview_schedule(user_id, interview_id, scheduled_date) ==
    /\ IF verify_interview_ownership(positions, interviews, interview_id, user_id) = None
       THEN /\ response' = Response("update_interview_schedule", user_id,
                                    [id |-> interview_id], NotFound)
            /\ UNCHANGED interviews
       ELSE /\ interviews' = interview_update(interviews, interview_id,
                                              [scheduled_date |-> scheduled_date])
            /\ response' = Response("update_interview_schedule", user_id,
                                    [id |-> interview_id], [status_code |-> 200])
    /\ UNCHANGED positions

\* PUT /interviews/{interview_id}/notes
update_interview_notes(user_id, interview_id, notes) ==
    /\ IF verify_interview_ownership(positions, interviews, interview_id, user_id) = None
       THEN /\ response' = Response("update_interview_notes", user_id,
                                    [id |-> interview_id], NotFound)
            /\ UNCHANGED interviews
       ELSE /\ interviews' = interview_update(interviews, interview_id,
                                              [notes |-> notes])
            /\ response' = Response("update_interview_notes", user_id,
                                    [id |-> interview_id], [status_code |-> 200])
    /\ UNCHANGED positions

\* variant: the outcome is stored and the position is left as it is
update_interview_outcome_of_the_interview_only(user_id, interview_id, outcome, now) ==
    LET interview == verify_interview_ownership(positions, interviews,
                                                interview_id, user_id)
        arg == [id |-> interview_id, outcome |-> Some(outcome)]
    IN  IF interview = None
        THEN /\ response' = Response("update_interview_outcome", user_id, arg, NotFound)
             /\ UNCHANGED <<positions, interviews>>
        ELSE /\ interviews' = interview_update(interviews, interview_id,
                                               [outcome |-> outcome])
             /\ positions' = positions
             /\ response' = Response("update_interview_outcome", user_id, arg,
                                     [status_code |-> 200])

\* PUT /interviews/{interview_id}/outcome
update_interview_outcome(user_id, interview_id, outcome, now) ==
    LET interview == verify_interview_ownership(positions, interviews,
                                                interview_id, user_id)
        arg == [id |-> interview_id, outcome |-> Some(outcome)]
    IN  IF interview = None
        THEN /\ response' = Response("update_interview_outcome", user_id, arg, NotFound)
             /\ UNCHANGED <<positions, interviews>>
        ELSE /\ interviews' = interview_update(interviews, interview_id,
                                               [outcome |-> outcome])
             /\ positions' =
                    IF outcome = "failed"
                    THEN update_status(positions, Get(interview).position_id, user_id,
                                       "rejected", now)
                    ELSE positions
             /\ response' = Response("update_interview_outcome", user_id, arg,
                                     [status_code |-> 200])

\* GET /statistics/overview
overview_endpoint(user_id, start_date, end_date, company, status) ==
    LET filters == api_filters(start_date, end_date, company, status)
    IN  /\ response' = Response("get_overview_statistics", user_id,
                                [filters |-> filters],
                                get_overview_statistics(positions, interviews, user_id, filters))
        /\ UNCHANGED <<positions, interviews>>

\* GET /statistics/timeline
timeline_endpoint(user_id, start_date, end_date, company, status, today) ==
    LET filters == api_filters(start_date, end_date, company, status)
    IN  /\ response' = Response("get_timeline_statistics", user_id,
                                [filters |-> filters, today |-> today],
                                get_timeline_statistics(positions, interviews, user_id,
                                                        filters, today))
        /\ UNCHANGED <<positions, interviews>>

\* GET /statistics/companies
companies_endpoint(user_id, start_date, end_date, company, status) ==
    LET filters == api_filters(start_date, end_date, company, status)
    IN  /\ response' = Response("get_company_statistics", user_id,
                                [filters |-> filters],
                                get_company_statistics(positions, interviews, user_id, filters))
        /\ UNCHANGED <<positions, interviews>>

\* GET /statistics/success-rates
success_rates_endpoint(user_id) ==
    /\ response' = Response("get_success_rates", user_id, None,
                            get_success_rates(positions, interviews, user_id))
    /\ UNCHANGED <<positions, interviews>>

\* GET /statistics/top-companies
top_companies_endpoint(user_id, limit) ==
    /\ response' = Response("get_top_companies", user_id, [limit |-> limit],
                            get_top_companies(positions, interviews, user_id, limit))
    /\ UNCHANGED <<positions, interviews>>

\* GET /statistics/monthly/{year}
monthly_endpoint(user_id, year) ==
    /\ response' = Response("get_monthly_statistics", user_id, [year |-> year],
                            get_monthly_statistics(positions, interviews, user_id, year))
    /\ UNCHANGED <<positions, interviews>>

\* ----------------------------------------------------------------- inputs
Users == {"u1", "u2"}

Acme == <<"A", "c", "m", "e">>
acme == <<"a", "c", "m", "e">>
Beta == <<"B", "e", "t", "a">>

PositionCreate(company, status, application_date) ==
    [application_date |-> application_date, company |-> company, status |-> status]

InterviewCreate(type, outcome, scheduled_date) ==
    [outcome |-> outcome, scheduled_date |-> scheduled_date, type |-> type]

PositionInputs ==
    { PositionCreate(Acme, "applied", D(2023, 12, 20)),
      PositionCreate(Acme, "offer", D(2023, 12, 28)),
      PositionCreate(acme, "offer", D(2024, 1, 10)),
      PositionCreate(Beta, "rejected", D(2024, 3, 5)) }

InterviewInputs ==
    { InterviewCreate("technical", "pending", DT(2024, 1, 13, 10)),
      InterviewCreate("hr", "passed", DT(2023, 12, 5, 15)) }

Nows == { DT(2024, 1, 20, 9) }
Todays == { D(2024, 3, 10) }
Years == { 2023, 2024 }
\* the endpoint takes any integer; 10 is the default
Limits == { 0 - 1, 0, 1, 10 }

\* query parameters <<start_date, end_date, company, status>>
FilterInputs ==
    { <<None, None, None, None>>,
      <<None, None, Some(<<"c", "M">>), None>>,
      <<Some(D(2024, 1, 1)), Some(D(2024, 2, 29)), None, None>>,
      <<Some(D(2024, 2, 29)), Some(D(2024, 1, 1)), None, None>>,
      <<Some(D(2024, 1, 1)), None, None, None>>,
      <<None, Some(D(2024, 1, 31)), None, None>>,
      <<None, None, None, Some("withdrawn")>> }

\* ---------------------------------------------------------- specification
\* the registrations that are under way at the same time, and their e-mails
Requests == {"r1", "r2", "r3"}
Emails == {"a@x", "b@x"}

\* a request: the line it is at, its user_data, its local existing_user and
\* its answer
Session(pc, email, existing_user, status_code, detail) ==
    [detail |-> detail, email |-> email, existing_user |-> existing_user,
     pc |-> pc, status_code |-> status_code]

Init ==
    /\ positions = <<>>
    /\ interviews = <<>>
    /\ response = Response("none", None, None, None)
    /\ users = <<>>
    /\ sessions = [r \in Requests |-> Session("idle", None, None, None, None)]

CreatePosition ==
    /\ Len(positions) + Len(interviews) < MaxRows
    /\ \E u \in Users, data \in PositionInputs, now \in Nows :
           create_position(u, data, now)
    /\ UNCHANGED <<users, sessions>>

CreateInterview ==
    /\ Len(positions) + Len(interviews) < MaxRows
    /\ \E u \in Users, pid \in 1..MaxRows, data \in InterviewInputs :
           create_interview(u, pid, data)
    /\ UNCHANGED <<users, sessions>>

\* A statistics view reads the store and leaves it as it is, so a view
\* answered after another view reaches no state that the view alone does not
\* reach: the views are taken from the states a store operation has left.
StoreOps == {"none", "create_position", "create_interview"}

GetOverviewStatistics ==
    /\ response.op \in StoreOps
    /\ \E u \in Users, q \in FilterInputs : overview_endpoint(u, q[1], q[2], q[3], q[4])
    /\ UNCHANGED <<users, sessions>>

GetTimelineStatistics ==
    /\ response.op \in StoreOps
    /\ \E u \in Users, q \in FilterInputs, today \in Todays :
           timeline_endpoint(u, q[1], q[2], q[3], q[4], today)
    /\ UNCHANGED <<users, sessions>>

GetCompanyStatistics ==
    /\ response.op \in StoreOps
    /\ \E u \in Users, q \in FilterInputs : companies_endpoint(u, q[1], q[2], q[3], q[4])
    /\ UNCHANGED <<users, sessions>>

GetSuccessRates ==
    /\ response.op \in StoreOps
    /\ \E u \in Users : success_rates_endpoint(u)
    /\ UNCHANGED <<users, sessions>>

GetTopCompanies ==
    /\ response.op \in StoreOps
    /\ \E u \in Users, limit \in Limits : top_companies_endpoint(u, limit)
    /\ UNCHANGED <<users, sessions>>

GetMonthlyStatistics ==
    /\ response.op \in StoreOps
    /\ \E u \in Users, year \in Years : monthly_endpoint(u, year)
    /\ UNCHANGED <<users, sessions>>

Next ==
    \/ CreatePosition
    \/ CreateInterview
    \/ GetOverviewStatistics
    \/ GetTimelineStatistics
    \/ GetCompanyStatistics
    \/ GetSuccessRates
    \/ GetTopCompanies
    \/ GetMonthlyStatistics

Spec == Init /\ [][Next]_vars

TypeOK == Len(positions) + Len(interviews) <= MaxRows

\* ------------------------------------------- registrations, interleaved
UserRow(id, email) == [email |-> email, id |-> id]

\* db.query(User).filter(User.email == email).first()
query_user_by_email(tbl, email) ==
    LET found == SelectIdx(tbl, {i \in DOMAIN tbl : tbl[i].email = email}, 1)
    IN  IF found = <<>> THEN None ELSE Some(found[1])

\* variant: the column has no unique index
unique_violation_never(tbl, email) == FALSE

\* users.email is unique=True: the database refuses a second row with an e-mail
unique_violation(tbl, email) == \E i \in DOMAIN tbl : tbl[i].email = email

EmailAlreadyRegistered == <<"Email already registered">>

\* POST /auth/register arrives with user_data
ReceiveRegistration(r) ==
    /\ sessions[r].pc = "idle"
    /\ \E email \in Emails :
           sessions' = [sessions EXCEPT ![r] = Session("query", Some(email), None,
                                                      None, None)]
    /\ UNCHANGED <<positions, interviews, response, users>>

\* the existence check: 409 when a committed user has the e-mail
CheckExisting(r) ==
    /\ sessions[r].pc = "query"
    /\ LET existing_user == query_user_by_email(users, Get(sessions[r].email))
       IN  sessions' =
               [sessions EXCEPT ![r] =
                   IF existing_user # None
                   THEN Session("done", sessions[r].email, existing_user, Some(409),
                                EmailAlreadyRegistered)
                   ELSE Session("commit", sessions[r].email, None, None, None)]
    /\ UNCHANGED <<positions, interviews, response, users>>

\* db.add(db_user); db.commit(): the insert is refused with IntegrityError
\* when a user with the e-mail was committed in the meantime, and is then
\* rolled back and answered 409
CommitUser(r) ==
    /\ sessions[r].pc = "commit"
    /\ IF unique_violation(users, Get(sessions[r].email))
       THEN /\ sessions' = [sessions EXCEPT ![r] =
                               Session("done", sessions[r].email, None, Some(409),
                                       EmailAlreadyRegistered)]
            /\ UNCHANGED users
       ELSE /\ users' = Append(users, UserRow(Len(users) + 1, Get(sessions[r].email)))
            /\ sessions' = [sessions EXCEPT ![r] =
                               Session("done", sessions[r].email, None, Some(201), None)]
    /\ UNCHANGED <<positions, interviews, response>>

NextRegister ==
    \/ \E r \in Requests : ReceiveRegistration(r)
    \/ \E r \in Requests : CheckExisting(r)
    \/ \E r \in Requests : CommitUser(r)

SpecRegister == Init /\ [][NextRegister]_vars

\* ------------------------------ the month-generation loop, step by step
\* datetime.MAXYEAR: date.replace(year=...) beyond it raises ValueError
MAXYEAR == 9999

LoopDates ==
    { D(2023, 11, 15), D(2023, 12, 1), D(2023, 12, 31), D(2024, 1, 1),
      D(2024, 1, 31), D(2024, 2, 29), D(2024, 3, 5),
      D(9999, 11, 20), D(9999, 12, 31) }

\* the dates of the items that the first loop has counted
LoopItems == << D(2023, 12, 31), D(2024, 1, 31), D(2024, 3, 5), D(9999, 12, 31) >>

months_from(start_date, end_date) ==
    (end_date.year * 12 + end_date.month) - (start_date.year * 12 + start_date.month)

\* the local variables of the loop and the line it is at
LoopState(pc, current, monthly_stats) ==
    [current |-> current, monthly_stats |-> monthly_stats, pc |-> pc]

\* result = []; current = start_date.replace(day=1)
EnterMonthLoop ==
    /\ response.op = "none"
    /\ \E start_date \in LoopDates, end_date \in LoopDates :
           /\ months_from(start_date, end_date) <= MaxMonths
           /\ response' =
                  Response("month_loop", None,
                           [end_date |-> end_date,
                            monthly_counts |->
                                monthly_counts_of(LoopItems, start_date, end_date),
                            start_date |-> start_date],
                           LoopState("while", [start_date EXCEPT !.day = 1], <<>>))
    /\ UNCHANGED <<positions, interviews>>
    /\ UNCHANGED <<users, sessions>>

\* one pass through the body of "while current <= end_date"
LoopIteration ==
    /\ response.op = "month_loop"
    /\ response.result.pc = "while"
    /\ DateLE(response.result.current, response.arg.end_date)
    /\ LET current == response.result.current
           monthly_stats ==
               Append(response.result.monthly_stats,
                      [count |-> DictGet(response.arg.monthly_counts,
                                         month_key(current), 0),
                       month |-> month_key(current)])
       IN  response' =
               [response EXCEPT !.result =
                   IF current.month = 12 /\ current.year + 1 > MAXYEAR
                   THEN LoopState("raise", current, monthly_stats)
                   ELSE LoopState("while", next_month(current), monthly_stats)]
    /\ UNCHANGED <<positions, interviews>>
    /\ UNCHANGED <<users, sessions>>

\* the test of the while fails: return result
LoopExit ==
    /\ response.op = "month_loop"
    /\ response.result.pc = "while"
    /\ ~DateLE(response.result.current, response.arg.end_date)
    /\ response' = [response EXCEPT !.result.pc = "return"]
    /\ UNCHANGED <<positions, interviews>>
    /\ UNCHANGED <<users, sessions>>

NextLoop ==
    \/ EnterMonthLoop
    \/ LoopIteration
    \/ LoopExit

\* the loop runs in one thread that nothing suspends: a step that can be
\* taken is taken
SpecLoop ==
    Init /\ [][NextLoop]_vars /\ WF_vars(LoopIteration) /\ WF_vars(LoopExit)

\* ------------------------------- the store under every request that edits it
StorePositionInputs == { PositionCreate(Acme, "applied", D(2023, 12, 20)) }

StoreInterviewInputs == { InterviewCreate("technical", "pending", DT(2024, 1, 13, 10)) }

\* bodies of PUT /positions/{id}: the fields that are set
PositionUpdates == { [status |-> "offer"] }
StatusUpdates == { "offer" }

\* bodies of PUT and PATCH /interviews/{id}: the fields that are set
InterviewUpdates ==
    { [outcome |-> "failed"],
      [outcome |-> "passed"],
      [notes |-> <<"o", "k">>] }

Schedules == { DT(2024, 2, 1, 9) }
NotesInputs == { <<"o", "k">> }

\* A request that reads, or that is answered 404, leaves the store as it is,
\* so a request answered after it reaches no state that the request alone
\* does not reach: the requests are taken from the states that a request
\* which edited the store has left.
ReadOps == {"get_position", "list_positions", "get_all_interviews",
            "list_interviews", "get_interview"}

Edited ==
    IF response.op = "none" THEN TRUE
    ELSE response.op \notin ReadOps /\ response.result.status_code # 404

StoreCreatePosition ==
    /\ Edited
    /\ Len(positions) + Len(interviews) < MaxRows
    /\ \E u \in Users, data \in StorePositionInputs, now \in Nows :
           create_position(u, data, now)
    /\ UNCHANGED <<users, sessions>>

StoreCreateInterview ==
    /\ Edited
    /\ Len(positions) + Len(interviews) < MaxRows
    /\ \E u \in Users, pid \in 1..MaxRows, data \in StoreInterviewInputs :
           create_interview(u, pid, data)
    /\ UNCHANGED <<users, sessions>>

GetPosition ==
    /\ Edited
    /\ \E u \in Users, pid \in 1..MaxRows : get_position(u, pid)
    /\ UNCHANGED <<users, sessions>>

ListPositions ==
    /\ Edited
    /\ \E u \in Users :
           \E perm \in Perms(Len(query_positions(positions, u))) : list_positions(u, perm)
    /\ UNCHANGED <<users, sessions>>

UpdatePosition ==
    /\ Edited
    /\ \E u \in Users, pid \in 1..MaxRows, data \in PositionUpdates, now \in Nows :
           update_position(u, pid, data, now)
    /\ UNCHANGED <<users, sessions>>

UpdatePositionStatus ==
    /\ Edited
    /\ \E u \in Users, pid \in 1..MaxRows, status \in StatusUpdates, now \in Nows :
           update_position_status(u, pid, status, now)
    /\ UNCHANGED <<users, sessions>>

DeletePosition ==
    /\ Edited
    /\ \E u \in Users, pid \in 1..MaxRows : delete_position(u, pid)
    /\ UNCHANGED <<users, sessions>>

GetAllInterviews ==
    /\ Edited
    /\ \E u \in Users : get_all_interviews(u)
    /\ UNCHANGED <<users, sessions>>

ListInterviews ==
    /\ Edited
    /\ \E u \in Users, pid \in 1..MaxRows :
           \E perm \in Perms(Len(get_by_position(interviews, pid))) :
               list_interviews(u, pid, perm)
    /\ UNCHANGED <<users, sessions>>

GetInterview ==
    /\ Edited
    /\ \E u \in Users, iid \in 1..MaxRows : get_interview(u, iid)
    /\ UNCHANGED <<users, sessions>>

UpdateInterview ==
    /\ Edited
    /\ \E u \in Users, iid \in 1..MaxRows, data \in InterviewUpdates, now \in Nows :
           update_interview(u, iid, data, now)
    /\ UNCHANGED <<users, sessions>>

PatchInterview ==
    /\ Edited
    /\ \E u \in Users, iid \in 1..MaxRows, data \in InterviewUpdates, now \in Nows :
           patch_interview(u, iid, data, now)
    /\ UNCHANGED <<users, sessions>>

DeleteInterview ==
    /\ Edited
    /\ \E u \in Users, iid \in 1..MaxRows : delete_interview(u, iid)
    /\ UNCHANGED <<users, sessions>>

UpdateInterviewSchedule ==
    /\ Edited
    /\ \E u \in Users, iid \in 1..MaxRows, scheduled_date \in Schedules :
           update_interview_schedule(u, iid, scheduled_date)
    /\ UNCHANGED <<users, sessions>>

UpdateInterviewNotes ==
    /\ Edited
    /\ \E u \in Users, iid \in 1..MaxRows, notes \in NotesInputs :
           update_interview_notes(u, iid, notes)
    /\ UNCHANGED <<users, sessions>>

UpdateInterviewOutcome ==
    /\ Edited
    /\ \E u \in Users, iid \in 1..MaxRows, outcome \in InterviewOutcome, now \in Nows :
           update_interview_outcome(u, iid, outcome, now)
    /\ UNCHANGED <<users, sessions>>

NextStore ==
    \/ StoreCreatePosition
    \/ StoreCreateInterview
    \/ GetPosition
    \/ ListPositions
    \/ UpdatePosition
    \/ UpdatePositionStatus
    \/ DeletePosition
    \/ GetAllInterviews
    \/ ListInterviews
    \/ GetInterview
    \/ UpdateInterview
    \/ PatchInterview
    \/ DeleteInterview
    \/ UpdateInterviewSchedule
    \/ UpdateInterviewNotes
    \/ UpdateInterviewOutcome

SpecStore == Init /\ [][NextStore]_vars

\* --------------------------------------- primitives called on given lists
CalcDates ==
    { D(2023, 12, 5), D(2023, 12, 20), D(2024, 1, 10), D(2024, 1, 25), D(2024, 3, 15) }

\* positions carrying the given statuses, in list order
positions_with_statuses(statuses) ==
    [i \in DOMAIN statuses |->
        PositionRow(i, "u1", Acme, statuses[i], D(2024, 1, 10), DT(2024, 1, 20, 9))]

\* positions applied for on the given dates
positions_with_dates(dates) ==
    [i \in DOMAIN dates |->
        PositionRow(i, "u1", Acme, "applied", dates[i], DT(2024, 1, 20, 9))]

\* interviews of the given positions
interviews_of_positions(position_ids) ==
    [i \in DOMAIN position_ids |->
        InterviewRow(i, position_ids[i], "technical", "pending", DT(2024, 1, 13, 10))]

interviews_with_types(types) ==
    [i \in DOMAIN types |-> InterviewRow(i, 1, types[i], "pending", DT(2024, 1, 13, 10))]

interviews_with_outcomes(outcomes) ==
    [i \in DOMAIN outcomes |->
        InterviewRow(i, 1, "technical", outcomes[i], DT(2024, 1, 13, 10))]

interviews_with_dates(dates) ==
    [i \in DOMAIN dates |->
        InterviewRow(i, 1, "technical", "pending",
                     DT(dates[i].year, dates[i].month, dates[i].day, 10 + i))]

Args(ps, ivs, start_date, end_date) ==
    [end_date |-> end_date, interviews |-> ivs, positions |-> ps, start_date |-> start_date]

\* one call of a primitive on lists built for the call; a run makes one call
Call(op, args, result) ==
    /\ response' = Response(op, None, args, result)
    /\ UNCHANGED <<positions, interviews>>

CalculateResponseRate ==
    /\ response.op = "none"
    /\ \E statuses \in SeqsUpTo(PositionStatus, MaxLen) :
        LET ps == positions_with_statuses(statuses)
        IN  Call("_calculate_response_rate", Args(ps, <<>>, None, None),
                 _calculate_response_rate(ps))
    /\ UNCHANGED <<users, sessions>>

CalculateInterviewRate ==
    /\ response.op = "none"
    /\ \E n \in 0..MaxLen :
        \E position_ids \in SeqsUpTo(1..n, MaxLen) :
            LET ps == positions_with_statuses([i \in 1..n |-> "applied"])
                ivs == interviews_of_positions(position_ids)
            IN  Call("_calculate_interview_rate", Args(ps, ivs, None, None),
                     _calculate_interview_rate(ps, ivs))
    /\ UNCHANGED <<users, sessions>>

CalculateOfferRate ==
    /\ response.op = "none"
    /\ \E statuses \in SeqsUpTo(PositionStatus, MaxLen) :
        LET ps == positions_with_statuses(statuses)
        IN  Call("_calculate_offer_rate", Args(ps, <<>>, None, None),
                 _calculate_offer_rate(ps))
    /\ UNCHANGED <<users, sessions>>

CalculateStatusBreakdown ==
    /\ response.op = "none"
    /\ \E statuses \in SeqsUpTo(PositionStatus, MaxLen) :
        LET ps == positions_with_statuses(statuses)
        IN  Call("_calculate_status_breakdown", Args(ps, <<>>, None, None),
                 _calculate_status_breakdown(ps))
    /\ UNCHANGED <<users, sessions>>

CalculateInterviewTypeBreakdown ==
    /\ response.op = "none"
    /\ \E types \in SeqsUpTo(InterviewType, MaxLen) :
        LET ivs == interviews_with_types(types)
        IN  Call("_calculate_interview_type_breakdown", Args(<<>>, ivs, None, None),
                 _calculate_interview_type_breakdown(ivs))
    /\ UNCHANGED <<users, sessions>>

CalculateInterviewOutcomeBreakdown ==
    /\ response.op = "none"
    /\ \E outcomes \in SeqsUpTo(InterviewOutcome, MaxLen) :
        LET ivs == interviews_with_outcomes(outcomes)
        IN  Call("_calculate_interview_outcome_breakdown", Args(<<>>, ivs, None, None),
                 _calculate_interview_outcome_breakdown(ivs))
    /\ UNCHANGED <<users, sessions>>

CalculateApplicationsPerMonth ==
    /\ response.op = "none"
    /\ \E dates \in SeqsUpTo(CalcDates, MaxLen), start_date \in CalcDates, end_date \in CalcDates :
        LET ps == positions_with_dates(dates)
        IN  Call("_calculate_applications_per_month",
                 Args(ps, <<>>, Some(start_date), Some(end_date)),
                 _calculate_applications_per_month(ps, start_date, end_date))
    /\ UNCHANGED <<users, sessions>>

CalculateInterviewsPerMonth ==
    /\ response.op = "none"
    /\ \E dates \in SeqsUpTo(CalcDates, MaxLen), start_date \in CalcDates, end_date \in CalcDates :
        LET ivs == interviews_with_dates(dates)
        IN  Call("_calculate_interviews_per_month",
                 Args(<<>>, ivs, Some(start_date), Some(end_date)),
                 _calculate_interviews_per_month(ivs, start_date, end_date))
    /\ UNCHANGED <<users, sessions>>

\* positions with their interviews: an application is
\* <<status, application_date, updated_at, scheduled dates of its interviews>>
applications_with_interviews(applications) ==
    LET ps == [i \in DOMAIN applications |->
                  PositionRow(i, "u1", Acme, applications[i][1], applications[i][2],
                              applications[i][3])]
        scheduled == Flatten([i \in DOMAIN applications |->
                         [k \in DOMAIN applications[i][4] |-> <<i, applications[i][4][k]>>]])
        ivs == [j \in DOMAIN scheduled |->
                   InterviewRow(j, scheduled[j][1], "technical", "pending", scheduled[j][2])]
    IN  Args(ps, ivs, None, None)

ResponseTimeApplications ==
    {"applied", "rejected"} \X {D(2023, 12, 20), D(2024, 1, 10)} \X {DT(2024, 1, 20, 9)}
        \X { <<>>, <<DT(2024, 1, 13, 10)>>, <<DT(2024, 1, 13, 10), DT(2023, 12, 25, 15)>>,
             <<DT(2023, 12, 20, 9)>> }

DecisionTimeApplications ==
    {"offer", "rejected", "interviewing"} \X {D(2023, 12, 20)}
        \X {DT(2024, 1, 15, 9), DT(2024, 1, 14, 9)}
        \X { <<>>, <<DT(2024, 1, 13, 10)>>, <<DT(2023, 12, 25, 15), DT(2024, 1, 15, 10)>> }

CalculateAverageResponseTime ==
    /\ response.op = "none"
    /\ \E applications \in SeqsUpTo(ResponseTimeApplications, MaxLen) :
        LET args == applications_with_interviews(applications)
        IN  Call("_calculate_average_response_time", args,
                 _calculate_average_response_time(args.positions, args.interviews))
    /\ UNCHANGED <<users, sessions>>

CalculateAverageInterviewToDecisionTime ==
    /\ response.op = "none"
    /\ \E applications \in SeqsUpTo(DecisionTimeApplications, MaxLen) :
        LET args == applications_with_interviews(applications)
        IN  Call("_calculate_average_interview_to_decision_time", args,
                 _calculate_average_interview_to_decision_time(
                     args.positions, args.interviews))
    /\ UNCHANGED <<users, sessions>>

NextCalc ==
    \/ CalculateResponseRate
    \/ CalculateInterviewRate
    \/ CalculateOfferRate
    \/ CalculateStatusBreakdown
    \/ CalculateInterviewTypeBreakdown
    \/ CalculateInterviewOutcomeBreakdown
    \/ CalculateApplicationsPerMonth
    \/ CalculateInterviewsPerMonth
    \/ CalculateAverageResponseTime
    \/ CalculateAverageInterviewToDecisionTime

SpecCalc == Init /\ [][NextCalc]_vars

\* ================================================================== claims
ViewOps ==
    {"get_overview_statistics", "get_timeline_statistics", "get_company_statistics",
     "get_success_rates", "get_top_companies", "get_monthly_statistics"}

FilteredOps ==
    {"get_overview_statistics", "get_timeline_statistics", "get_company_statistics"}

\* the positions and interviews the answered request fetched
ReqPositions == fetch_positions(positions, response.user_id, response.arg.filters)
ReqInterviews ==
    LET ids == {ReqPositions[i].id : i \in DOMAIN ReqPositions}
    IN  SelectIdx(interviews, {i \in DOMAIN interviews : interviews[i].position_id \in ids}, 1)

RECURSIVE SumOver(_, _)
SumOver(f, S) ==
    IF S = {} THEN 0
    ELSE LET x == CHOOSE x \in S : TRUE IN f[x] + SumOver(f, S \ {x})

AllZeroOver(f, enum) == DOMAIN f = enum /\ \A k \in enum : f[k] = 0

IsPercentage(rate) == 0 <= rate /\ rate <= 10000

\* C1: the overview of a user without (matching) positions is returned, not
\* raised, with the three totals 0, the three rates 0.0 and every category of
\* the three breakdowns present with value 0.
C1_EmptyOverviewIsAllZero ==
    (response.op = "get_overview_statistics" /\ ReqPositions = <<>>) =>
        /\ ~Raised(response.result)
        /\ response.result.total_applications = 0
        /\ response.result.total_companies = 0
        /\ response.result.total_interviews = 0
        /\ response.result.response_rate = 0
        /\ response.result.interview_rate = 0
        /\ response.result.offer_rate = 0
        /\ AllZeroOver(response.result.status_breakdown, SchemaPositionStatus)
        /\ AllZeroOver(response.result.interview_type_breakdown, SchemaInterviewType)
        /\ AllZeroOver(response.result.interview_outcome_breakdown, SchemaInterviewOutcome)

\* C2: the overview reports total_applications = number of fetched positions,
\* total_interviews = number of interviews of exactly those positions, and
\* total_companies = number of distinct company strings, compared exactly.
C2_OverviewTotals ==
    response.op = "get_overview_statistics" =>
        /\ ~Raised(response.result)
        /\ response.result.total_applications = Len(ReqPositions)
        /\ response.result.total_interviews = Len(ReqInterviews)
        /\ response.result.total_companies =
               Cardinality({ReqPositions[i].company : i \in DOMAIN ReqPositions})

\* the tables with every other user's rows removed
OwnPositions(u) == SelectIdx(positions, {i \in DOMAIN positions : positions[i].user_id = u}, 1)
OwnInterviews(u) ==
    LET ids == {OwnPositions(u)[i].id : i \in DOMAIN OwnPositions(u)}
    IN  SelectIdx(interviews, {i \in DOMAIN interviews : interviews[i].position_id \in ids}, 1)

BreakdownItems ==
    IF response.op = "_calculate_status_breakdown"
    THEN [i \in DOMAIN response.arg.positions |-> response.arg.positions[i].status]
    ELSE IF response.op = "_calculate_interview_type_breakdown"
    THEN [i \in DOMAIN response.arg.interviews |-> response.arg.interviews[i].type]
    ELSE [i \in DOMAIN response.arg.interviews |-> response.arg.interviews[i].outcome]

BreakdownEnum ==
    IF response.op = "_calculate_status_breakdown" THEN SchemaPositionStatus
    ELSE IF response.op = "_calculate_interview_type_breakdown" THEN SchemaInterviewType
    ELSE SchemaInterviewOutcome

BreakdownOps ==
    {"_calculate_status_breakdown", "_calculate_interview_type_breakdown",
     "_calculate_interview_outcome_breakdown"}

\* C4: a breakdown is a total map over its enumeration (6 statuses, 4 types,
\* 4 outcomes): every category is a key, its value is the number of items of
\* that category, and the values sum to the number of items.
C4_BreakdownIsTotalMap ==
    response.op \in BreakdownOps =>
        /\ DOMAIN response.result = BreakdownEnum
        /\ Cardinality(DOMAIN response.result) =
               (IF response.op = "_calculate_status_breakdown" THEN 6 ELSE 4)
        /\ \A c \in BreakdownEnum :
               response.result[c] =
                   Cardinality({i \in DOMAIN BreakdownItems : BreakdownItems[i] = c})
        /\ SumOver(response.result, DOMAIN response.result) = Len(BreakdownItems)

\* a status breakdown of three positions with a category of two and an absent one
C4_Witness ==
    /\ response.op = "_calculate_status_breakdown"
    /\ Len(response.arg.positions) = 3
    /\ response.result["rejected"] = 2
    /\ response.result["withdrawn"] = 0

Abs(x) == IF x < 0 THEN 0 - x ELSE x

\* rate is num / den as a percentage rounded to the nearest hundredth
IsRoundedPercentage(rate, num, den) == 2 * Abs(rate * den - 10000 * num) <= den

\* C5: for a non-empty position list response_rate is the percentage of
\* positions whose status is not applied, rounded to 2 decimals, and with the
\* rounded percentage of applied positions it adds up to 100 within 0.01.
C5_ResponseRate ==
    (response.op = "_calculate_response_rate" /\ response.arg.positions # <<>>) =>
        LET ps == response.arg.positions
            applied == Cardinality({i \in DOMAIN ps : ps[i].status = "applied"})
        IN  /\ IsRoundedPercentage(response.result, Len(ps) - applied, Len(ps))
            /\ \A still \in 0..10000 :
                   IsRoundedPercentage(still, applied, Len(ps)) =>
                       Abs(response.result + still - 10000) <= 1

\* two of three positions answered: 66.67
C5_Witness ==
    /\ response.op = "_calculate_response_rate"
    /\ Len(response.arg.positions) = 3
    /\ response.result = 6667

\* C6: interview_rate is the percentage of positions with at least one
\* interview: the distinct position ids the interviews reference over the
\* number of positions, several interviews of one position counting once.
C6_InterviewRate ==
    (response.op = "_calculate_interview_rate" /\ response.arg.positions # <<>>) =>
        LET ps == response.arg.positions
            ivs == response.arg.interviews
            with_interview ==
                {i \in DOMAIN ps : \E j \in DOMAIN ivs : ivs[j].position_id = ps[i].id}
        IN  IsRoundedPercentage(response.result, Cardinality(with_interview), Len(ps))

\* two interviews of one position among two positions: 50.0
C6_Witness ==
    /\ response.op = "_calculate_interview_rate"
    /\ Len(response.arg.positions) = 2
    /\ Len(response.arg.interviews) = 2
    /\ response.arg.interviews[1].position_id = response.arg.interviews[2].position_id
    /\ response.result = 5000

\* C7: every rate the engine returns is a percentage between 0 and 100: the
\* three overview rates, each company's success_rate, and the three rates of
\* the success-rates view.
C7_RatesArePercentages ==
    /\ (response.op = "get_overview_statistics" /\ ~Raised(response.result)) =>
           /\ IsPercentage(response.result.response_rate)
           /\ IsPercentage(response.result.interview_rate)
           /\ IsPercentage(response.result.offer_rate)
    /\ response.op = "get_company_statistics" =>
           \A k \in DOMAIN response.result.companies :
               IsPercentage(response.result.companies[k].success_rate)
    /\ response.op = "get_top_companies" =>
           \A k \in DOMAIN response.result : IsPercentage(response.result[k].success_rate)
    /\ response.op = "get_success_rates" =>
           /\ IsPercentage(response.result.application_to_interview_rate)
           /\ IsPercentage(response.result.interview_to_offer_rate)
           /\ IsPercentage(response.result.overall_success_rate)

AllCountsZero(per_month) == \A k \in DOMAIN per_month : per_month[k].count = 0

\* C8: a rate over a zero denominator is 0.0, and every view of a user
\* without (matching) positions returns zero, empty or default output and
\* does not raise.
C8_EmptyInputIsZeroSafe ==
    /\ (response.op \in FilteredOps /\ ReqPositions = <<>>) =>
           ~Raised(response.result)
    /\ (response.op = "get_overview_statistics" /\ ReqPositions = <<>>) =>
           /\ response.result.response_rate = 0
           /\ response.result.interview_rate = 0
           /\ response.result.offer_rate = 0
    /\ (response.op = "get_timeline_statistics" /\ ReqPositions = <<>>) =>
           /\ AllCountsZero(response.result.applications_per_month)
           /\ AllCountsZero(response.result.interviews_per_month)
           /\ response.result.average_response_time_days = None
           /\ response.result.average_interview_to_decision_days = None
    /\ (response.op = "get_company_statistics" /\ ReqPositions = <<>>) =>
           /\ response.result.companies = <<>>
           /\ response.result.total_companies = 0
    /\ (response.op = "get_success_rates" /\ OwnPositions(response.user_id) = <<>>) =>
           /\ response.result.application_to_interview_rate = 0
           /\ response.result.interview_to_offer_rate = 0
           /\ response.result.overall_success_rate = 0
           /\ response.result.average_interviews_per_position = 0
    /\ (response.op = "get_success_rates" /\ OwnInterviews(response.user_id) = <<>>) =>
           response.result.interview_to_offer_rate = 0
    /\ (response.op = "get_top_companies" /\ OwnPositions(response.user_id) = <<>>) =>
           response.result = <<>>
    /\ (response.op = "get_monthly_statistics" /\ OwnPositions(response.user_id) = <<>>) =>
           \A m \in 1..12 :
               /\ response.result[m].positions_applied = 0
               /\ response.result[m].interviews_conducted = 0
               /\ response.result[m].offers_received = 0

MonthOps == {"_calculate_applications_per_month", "_calculate_interviews_per_month"}

\* the dates of the items and the period of a month-bucketing call
ItemDates ==
    IF response.op = "_calculate_applications_per_month"
    THEN [i \in DOMAIN response.arg.positions |-> response.arg.positions[i].application_date]
    ELSE [i \in DOMAIN response.arg.interviews |->
             date_of(response.arg.interviews[i].scheduled_date)]
PeriodStart == Get(response.arg.start_date)
PeriodEnd == Get(response.arg.end_date)
InPeriod == {i \in DOMAIN ItemDates :
                DateLE(PeriodStart, ItemDates[i]) /\ DateLE(ItemDates[i], PeriodEnd)}

\* months counted from year 0
MonthIndex(y, m) == y * 12 + m - 1

DigitValue(ch) == CHOOSE n \in 0..9 : Digit[n + 1] = ch
IsDigit(ch) == \E n \in 0..9 : Digit[n + 1] = ch

\* a key reads "YYYY-MM"
WellFormedKey(key) ==
    /\ Len(key) = 7
    /\ key[5] = "-"
    /\ \A p \in {1, 2, 3, 4, 6, 7} : IsDigit(key[p])

\* the month a key "YYYY-MM" names
KeyIndex(key) ==
    MonthIndex(1000 * DigitValue(key[1]) + 100 * DigitValue(key[2])
                   + 10 * DigitValue(key[3]) + DigitValue(key[4]),
               10 * DigitValue(key[6]) + DigitValue(key[7]))

C10_OutsidePeriodNotCounted ==
    response.op \in MonthOps =>
        LET seq == response.result
        IN  /\ \A k \in DOMAIN seq :
                   /\ seq[k].count =
                          Cardinality({i \in InPeriod :
                              MonthIndex(ItemDates[i].year, ItemDates[i].month)
                                  = KeyIndex(seq[k].month)})
                   /\ MonthIndex(PeriodStart.year, PeriodStart.month) <= KeyIndex(seq[k].month)
                   /\ KeyIndex(seq[k].month) <= MonthIndex(PeriodEnd.year, PeriodEnd.month)
            /\ SumSeq([k \in DOMAIN seq |-> seq[k].count]) = Cardinality(InPeriod)

\* an interview in the month of period_start but before it, one in the month
\* of period_end but after it, and one inside the period
C10_Witness ==
    /\ response.op = "_calculate_interviews_per_month"
    /\ DateLE(PeriodStart, PeriodEnd)
    /\ Cardinality(InPeriod) = 1
    /\ \E i \in DOMAIN ItemDates :
          /\ ItemDates[i].year = PeriodStart.year
          /\ ItemDates[i].month = PeriodStart.month
          /\ ItemDates[i].day < PeriodStart.day
    /\ \E i \in DOMAIN ItemDates :
          /\ ItemDates[i].year = PeriodEnd.year
          /\ ItemDates[i].month = PeriodEnd.month
          /\ ItemDates[i].day > PeriodEnd.day

\* the two dates of the answered request's filter, None when not supplied
ReqStartDate ==
    IF response.arg.filters = None THEN None ELSE Get(response.arg.filters).start_date
ReqEndDate ==
    IF response.arg.filters = None THEN None ELSE Get(response.arg.filters).end_date
ReqDates == [i \in DOMAIN ReqPositions |-> ReqPositions[i].application_date]

\* C11: the timeline's period is the filter's start_date and end_date when
\* both are supplied; otherwise the least and the greatest application_date of
\* the fetched positions; and with no fetched position the first day of the
\* current month and today.
C11_TimelinePeriod ==
    response.op = "get_timeline_statistics" =>
        LET r == response.result
        IN  IF ReqStartDate # None /\ ReqEndDate # None
            THEN r.period_start = Get(ReqStartDate) /\ r.period_end = Get(ReqEndDate)
            ELSE IF ReqPositions # <<>>
            THEN /\ r.period_start \in Range(ReqDates)
                 /\ r.period_end \in Range(ReqDates)
                 /\ \A i \in DOMAIN ReqDates :
                        DateLE(r.period_start, ReqDates[i]) /\ DateLE(ReqDates[i], r.period_end)
            ELSE /\ r.period_start = D(response.arg.today.year, response.arg.today.month, 1)
                 /\ r.period_end = response.arg.today

\* a timeline asked with a start_date alone that differs from the earliest
\* application_date fetched, over positions of two dates
C11_Witness ==
    /\ response.op = "get_timeline_statistics"
    /\ ReqStartDate # None
    /\ ReqEndDate = None
    /\ ReqPositions # <<>>
    /\ response.result.period_start # Get(ReqStartDate)
    /\ response.result.period_start # response.result.period_end

\* the calendar dates of the interviews of the i-th position of a call
CallInterviewDates(i) ==
    {date_of(response.arg.interviews[j].scheduled_date) :
        j \in {k \in DOMAIN response.arg.interviews :
                  response.arg.interviews[k].position_id = response.arg.positions[i].id}}
EarliestDate(dates) == CHOOSE d \in dates : \A e \in dates : DateLE(d, e)
LatestDate(dates) == CHOOSE d \in dates : \A e \in dates : DateLE(e, d)

\* average is None without a sample, and else the mean of the samples
\* sample[i], i in S, rounded to the nearest tenth (held in tenths)
IsMeanOrNone(average, sample, S) ==
    IF S = {} THEN average = None
    ELSE /\ average # None
         /\ Get(average) >= 0
         /\ 2 * Abs(Get(average) * Cardinality(S) - 10 * SumOver(sample, S))
                <= Cardinality(S)

C13_AverageInterviewToDecisionTime ==
    response.op = "_calculate_average_interview_to_decision_time" =>
        LET ps == response.arg.positions
            sample == [i \in DOMAIN ps |->
                          IF CallInterviewDates(i) = {} THEN 0
                          ELSE days_between(date_of(ps[i].updated_at),
                                            LatestDate(CallInterviewDates(i)))]
            S == {i \in DOMAIN ps :
                     /\ ps[i].status \in {"offer", "rejected"}
                     /\ CallInterviewDates(i) # {}
                     /\ sample[i] >= 0}
        IN  IsMeanOrNone(response.result, sample, S)

\* three positions with interviews: an offer decided 2 days after its only
\* interview, a rejection decided on the day of its latest interview, and a
\* position still interviewing
C13_Witness ==
    /\ response.op = "_calculate_average_interview_to_decision_time"
    /\ Len(response.arg.positions) = 3
    /\ response.arg.positions[1].status = "offer"
    /\ date_of(response.arg.positions[1].updated_at) = D(2024, 1, 15)
    /\ CallInterviewDates(1) = {D(2024, 1, 13)}
    /\ response.arg.positions[2].status = "rejected"
    /\ date_of(response.arg.positions[2].updated_at) = D(2024, 1, 15)
    /\ Cardinality(CallInterviewDates(2)) = 2
    /\ response.arg.positions[3].status = "interviewing"
    /\ CallInterviewDates(3) # {}
    /\ response.result = Some(10)
\* the place in the fetched positions where a company is first met
FirstMet(company) ==
    CHOOSE i \in DOMAIN ReqPositions :
        /\ ReqPositions[i].company = company
        /\ \A j \in 1..(i - 1) : ReqPositions[j].company # company

\* C14: the company records come by total_applications in descending order,
\* and records of equal total_applications in the order in which the fetched
\* positions first meet their companies.
C14_CompaniesSortedByApplications ==
    response.op = "get_company_statistics" =>
        LET c == response.result.companies
        IN  \A k \in DOMAIN c, l \in DOMAIN c :
                k < l =>
                    /\ c[k].total_applications >= c[l].total_applications
                    /\ c[k].total_applications = c[l].total_applications =>
                           FirstMet(c[k].company_name) < FirstMet(c[l].company_name)

\* three companies of one application each, "acme" met before "Acme"
C14_Witness ==
    /\ response.op = "get_company_statistics"
    /\ Len(response.result.companies) = 3
    /\ response.result.companies[1].company_name = acme
    /\ response.result.companies[2].company_name = Beta
    /\ response.result.companies[3].company_name = Acme
\* the fetched positions of a company, and the stored interviews of those
CompanyGroup(company) ==
    {i \in DOMAIN ReqPositions : ReqPositions[i].company = company}
CompanyGroupInterviews(company) ==
    {j \in DOMAIN interviews :
        \E i \in CompanyGroup(company) : interviews[j].position_id = ReqPositions[i].id}

\* C15: a company record describes the fetched positions of that company only:
\* total_applications is their number, total_interviews the number of their
\* interviews, latest_application_date their greatest application_date,
\* status_breakdown their zero-filled breakdown, and success_rate their share
\* of offers as a percentage rounded to 2 decimals.
C15_CompanyRecord ==
    response.op = "get_company_statistics" =>
        \A k \in DOMAIN response.result.companies :
            LET c == response.result.companies[k]
                G == CompanyGroup(c.company_name)
                offers == {i \in G : ReqPositions[i].status = "offer"}
            IN  /\ G # {}
                /\ c.total_applications = Cardinality(G)
                /\ c.total_interviews = Cardinality(CompanyGroupInterviews(c.company_name))
                /\ c.latest_application_date # None
                /\ \E i \in G : ReqPositions[i].application_date = Get(c.latest_application_date)
                /\ \A i \in G :
                       DateLE(ReqPositions[i].application_date, Get(c.latest_application_date))
                /\ DOMAIN c.status_breakdown = SchemaPositionStatus
                /\ \A st \in SchemaPositionStatus :
                       c.status_breakdown[st] =
                           Cardinality({i \in G : ReqPositions[i].status = st})
                /\ IsRoundedPercentage(c.success_rate, Cardinality(offers), Cardinality(G))

\* a company with an offer among three applications, next to nothing else
C15_Witness ==
    /\ response.op = "get_company_statistics"
    /\ Len(response.result.companies) = 1
    /\ response.result.companies[1].total_applications = 3
    /\ response.result.companies[1].success_rate = 3333
    /\ response.result.companies[1].status_breakdown["applied"] = 2

\* the company list partitions the fetched positions and their interviews
CompaniesPartitionFetched ==
    LET r == response.result
        c == r.companies
    IN  /\ r.total_companies = Len(c)
        /\ \A k \in DOMAIN c, l \in DOMAIN c :
               k # l => c[k].company_name # c[l].company_name
        /\ SumSeq([k \in DOMAIN c |-> c[k].total_applications]) = Len(ReqPositions)
        /\ SumSeq([k \in DOMAIN c |-> c[k].total_interviews]) = Len(ReqInterviews)

\* C16: the company statistics response partitions the fetched positions:
\* total_companies is the length of the list, the names are pairwise distinct,
\* the total_applications add up to the number of fetched positions and the
\* total_interviews to the number of their interviews; the overview of the
\* same user and filters reports the same three totals.
C16_CompaniesPartition ==
    response.op = "get_company_statistics" =>
        LET r == response.result
            overview == get_overview_statistics(
                            positions, interviews, response.user_id, response.arg.filters)
        IN  /\ CompaniesPartitionFetched
            /\ ~Raised(overview)
            /\ overview.total_companies = r.total_companies
            /\ overview.total_applications = Len(ReqPositions)
            /\ overview.total_interviews = Len(ReqInterviews)

\* two characters that are one letter in either case
SameLetter(a, b) ==
    \/ a = b
    \/ \E pair \in {<<"A", "a">>, <<"B", "b">>, <<"C", "c">>, <<"E", "e">>,
                     <<"M", "m">>, <<"T", "t">>} : {a, b} = {pair[1], pair[2]}

\* the positions of the asking user that the filter of the request lets pass
Passes(pos, f) ==
    /\ f.start_date # None => DateLE(Get(f.start_date), pos.application_date)
    /\ f.end_date # None => DateLE(pos.application_date, Get(f.end_date))
    /\ (f.company # None /\ Get(f.company) # <<>>) =>
           \E k \in 1..(Len(pos.company) - Len(Get(f.company)) + 1) :
               \A j \in 1..Len(Get(f.company)) :
                   SameLetter(pos.company[k + j - 1], Get(f.company)[j])
    /\ f.status # None => pos.status = Get(f.status)

PassingPositions ==
    SelectIdx(positions,
        {i \in DOMAIN positions :
            /\ positions[i].user_id = response.user_id
            /\ Passes(positions[i], Get(response.arg.filters))}, 1)
PassingInterviews ==
    SelectIdx(interviews,
        {j \in DOMAIN interviews :
            \E i \in DOMAIN PassingPositions :
                interviews[j].position_id = PassingPositions[i].id}, 1)

\* the view of the request asked without filter over the passing positions
\* and their interviews only
UnfilteredOverPassing ==
    IF response.op = "get_overview_statistics"
    THEN get_overview_statistics(PassingPositions, PassingInterviews, response.user_id, None)
    ELSE IF response.op = "get_company_statistics"
    THEN get_company_statistics(PassingPositions, PassingInterviews, response.user_id, None)
    ELSE get_timeline_statistics(PassingPositions, PassingInterviews, response.user_id,
                                 None, response.arg.today)

NoInterviewCounted ==
    /\ (response.op = "get_timeline_statistics" /\ ReqPositions = <<>>) =>
           /\ AllCountsZero(response.result.interviews_per_month)
           /\ response.result.average_response_time_days = None
           /\ response.result.average_interview_to_decision_days = None
    /\ (response.op = "get_company_statistics" /\ ReqPositions = <<>>) =>
           response.result.companies = <<>>

\* C18: a view that fetched no position aggregates no interview, whatever
\* interviews the store holds: the overview reports total_interviews 0 and
\* both interview breakdowns 0 in every category, and the timeline counts 0
\* interviews in every month.
C18_NoPositionsNoInterviews ==
    /\ NoInterviewCounted
    /\ (response.op = "get_overview_statistics" /\ ReqPositions = <<>>) =>
           /\ ~Raised(response.result)
           /\ response.result.total_interviews = 0
           /\ AllZeroOver(response.result.interview_type_breakdown, SchemaInterviewType)
           /\ AllZeroOver(response.result.interview_outcome_breakdown,
                          SchemaInterviewOutcome)

\* C19: the success rates of a user with A positions, I interviews of those
\* positions and O offers are application_to_interview_rate = I / A,
\* interview_to_offer_rate = O / I (0.0 without interview) and
\* overall_success_rate = O / A as percentages rounded to 2 decimals, and
\* average_interviews_per_position = I / A rounded to 2 decimals; all four
\* are 0.0 for a user without positions.
C19_SuccessRates ==
    response.op = "get_success_rates" =>
        LET r == response.result
            own == OwnPositions(response.user_id)
            A == Len(own)
            I == Len(OwnInterviews(response.user_id))
            O == Cardinality({i \in DOMAIN own : own[i].status = "offer"})
        IN  IF A = 0
            THEN /\ r.application_to_interview_rate = 0
                 /\ r.interview_to_offer_rate = 0
                 /\ r.overall_success_rate = 0
                 /\ r.average_interviews_per_position = 0
            ELSE /\ IsRoundedPercentage(r.application_to_interview_rate, I, A)
                 /\ IF I = 0 THEN r.interview_to_offer_rate = 0
                    ELSE IsRoundedPercentage(r.interview_to_offer_rate, O, I)
                 /\ IsRoundedPercentage(r.overall_success_rate, O, A)
                 /\ 2 * Abs(r.average_interviews_per_position * A - 100 * I) <= A

\* the success rates of a user whose only position, an offer, has two
\* interviews, while another user holds nothing
C19_Witness ==
    /\ response.op = "get_success_rates"
    /\ Len(OwnPositions(response.user_id)) = 1
    /\ Len(OwnInterviews(response.user_id)) = 2
    /\ response.result.application_to_interview_rate = 20000
    /\ response.result.interview_to_offer_rate = 5000
    /\ response.result.overall_success_rate = 10000
    /\ response.result.average_interviews_per_position = 200

\* C20: the top companies come by success_rate in descending order, and
\* those of equal success_rate by applications in descending order: of two
\* adjacent records the earlier has the greater success_rate, or the same
\* success_rate and at least as many applications.
C20_TopCompaniesOrder ==
    response.op = "get_top_companies" =>
        \A k \in 1..(Len(response.result) - 1) :
            LET a == response.result[k]
                b == response.result[k + 1]
            IN  \/ a.success_rate > b.success_rate
                \/ a.success_rate = b.success_rate /\ a.applications >= b.applications

\* two companies without offer, the one met second having more applications
C20_Witness ==
    /\ response.op = "get_top_companies"
    /\ Len(response.result) = 2
    /\ response.result[1].success_rate = response.result[2].success_rate
    /\ response.result[1].applications = 2
    /\ response.result[2].applications = 1
    /\ OwnPositions(response.user_id)[1].company = response.result[2].company

\* the top companies of the asking user in full
FullOrdering ==
    get_top_companies(positions, interviews, response.user_id,
                      Len(OwnPositions(response.user_id)))

\* C21: the top companies are cut to the limit of the request: the result has
\* at most limit records, the first min(limit, number of companies) of the
\* full ordering, for every integer limit the endpoint takes.
C21_TopCompaniesLimit ==
    response.op = "get_top_companies" =>
        LET limit == response.arg.limit
            n == Len(FullOrdering)
        IN  /\ Len(response.result) <= limit
            /\ response.result = SubSeq(FullOrdering, 1, IF limit < n THEN limit ELSE n)

\* the months of the year by name
CalendarMonths ==
    <<"January", "February", "March", "April", "May", "June", "July", "August",
      "September", "October", "November", "December">>

C23_MonthlyInterviewsConducted ==
    response.op = "get_monthly_statistics" =>
        LET r == response.result
            ivs == OwnInterviews(response.user_id)
            conducted(m) == {j \in DOMAIN ivs :
                                /\ ivs[j].scheduled_date.year = response.arg.year
                                /\ ivs[j].scheduled_date.month = m}
        IN  \A m \in 1..12 : r[m].interviews_conducted = Cardinality(conducted(m))

\* C24: offers_received counts each position of the user in status offer
\* whose updated_at is in the requested year once, in the month of
\* updated_at, whichever year the position was applied for in.
C24_MonthlyOffersReceived ==
    response.op = "get_monthly_statistics" =>
        LET r == response.result
            own == OwnPositions(response.user_id)
            received(m) == {i \in DOMAIN own :
                               /\ own[i].status = "offer"
                               /\ own[i].updated_at.year = response.arg.year
                               /\ own[i].updated_at.month = m}
        IN  \A m \in 1..12 : r[m].offers_received = Cardinality(received(m))

\* the stored positions with that id
PositionsWithId(id) == {i \in DOMAIN positions : positions[i].id = id}

\* every stored interview references exactly one stored position
NoOrphanInterview ==
    \A j \in DOMAIN interviews :
        Cardinality(PositionsWithId(interviews[j].position_id)) = 1

\* C25: after any sequence of create, update and delete requests every stored
\* interview references exactly one stored position; an interview is only
\* added for a stored position that the caller owns, and a position that is
\* deleted takes all of its interviews with it in the same request.
C25_EveryInterviewHasItsPosition ==
    [][ /\ NoOrphanInterview'
        /\ Len(interviews') > Len(interviews) =>
               /\ response'.op = "create_interview"
               /\ interviews' = Append(interviews, interviews'[Len(interviews')])
               /\ \E i \in DOMAIN positions :
                      /\ positions[i].id = interviews'[Len(interviews')].position_id
                      /\ positions[i].user_id = response'.user_id
        /\ Len(positions') < Len(positions) =>
               /\ response'.op = "delete_position"
               /\ \A j \in DOMAIN interviews' :
                      interviews'[j].position_id # response'.arg.id
               /\ \A j \in DOMAIN interviews :
                      interviews[j].position_id # response'.arg.id =>
                          \E k \in DOMAIN interviews' : interviews'[k] = interviews[j]
      ]_vars

\* a position was deleted, and another position and its interview are left
C25_Witness ==
    /\ response.op = "delete_position"
    /\ response.result.status_code = 204
    /\ Len(positions) = 1
    /\ Len(interviews) = 1
    /\ interviews[1].position_id = positions[1].id
    /\ positions[1].id # response.arg.id

\* requests that name a position, and requests that name an interview
PositionRequests ==
    {"get_position", "update_position", "update_position_status",
     "delete_position", "list_interviews"}
InterviewRequests ==
    {"get_interview", "update_interview", "patch_interview", "delete_interview",
     "update_interview_schedule", "update_interview_notes",
     "update_interview_outcome"}

\* the stored position with that id belongs to somebody else than user
PositionOfAnother(id, user) ==
    \E i \in DOMAIN positions : positions[i].id = id /\ positions[i].user_id # user

\* the stored interview with that id is on a position of somebody else
InterviewOfAnother(id, user) ==
    \E j \in DOMAIN interviews :
        interviews[j].id = id /\ PositionOfAnother(interviews[j].position_id, user)

\* C26: a request that names a position or an interview of another user is
\* answered 404 and leaves all stored positions and interviews as they are; an
\* interview is never added to the position of another user; the listing of
\* a user's positions holds positions of that user only.
C26_NoAccessAcrossUsers ==
    [][ LET r == response'
        IN  /\ (r.op \in PositionRequests /\ PositionOfAnother(r.arg.id, r.user_id)) =>
                   /\ r.result.status_code = 404
                   /\ UNCHANGED <<positions, interviews>>
            /\ (r.op \in InterviewRequests /\ InterviewOfAnother(r.arg.id, r.user_id)) =>
                   /\ r.result.status_code = 404
                   /\ UNCHANGED <<positions, interviews>>
            /\ r.op = "create_interview" =>
                   \/ /\ r.result.status_code = 404
                      /\ UNCHANGED <<positions, interviews>>
                   \/ /\ r.result.status_code = 201
                      /\ ~PositionOfAnother(interviews'[Len(interviews')].position_id,
                                            r.user_id)
            /\ r.op = "list_positions" =>
                   \A i \in DOMAIN r.result.positions :
                       r.result.positions[i].user_id = r.user_id
      ]_vars

\* the outcome of an interview on the position of another user was asked to
\* be set to failed
C26_Witness ==
    /\ response.op = "update_interview_outcome"
    /\ response.arg.outcome = Some("failed")
    /\ response.result.status_code = 404
    /\ InterviewOfAnother(response.arg.id, response.user_id)

\* the status of the position that the interview with that id is on
StatusOfPositionOf(tbl, interview_id) ==
    LET j == CHOOSE j \in DOMAIN interviews : interviews[j].id = interview_id
        i == CHOOSE i \in DOMAIN tbl : tbl[i].id = interviews[j].position_id
    IN  tbl[i].status

\* C27: when the owner sets the outcome of an interview to failed, through
\* the outcome endpoint or through PUT or PATCH, the position of the interview
\* has status rejected once the request is answered; any other outcome, and
\* an update of the schedule or of the notes only, leaves the status of the
\* position as it was.
C27_FailedInterviewRejectsPosition ==
    [][ LET r == response'
            sets_outcome == /\ r.op \in {"update_interview", "patch_interview",
                                          "update_interview_outcome"}
                            /\ r.result.status_code = 200
        IN  /\ (sets_outcome /\ r.arg.outcome = Some("failed")) =>
                   StatusOfPositionOf(positions', r.arg.id) = "rejected"
            /\ (sets_outcome /\ r.arg.outcome # Some("failed")) =>
                   StatusOfPositionOf(positions', r.arg.id) =
                       StatusOfPositionOf(positions, r.arg.id)
            /\ (/\ r.op \in {"update_interview_schedule", "update_interview_notes"}
                /\ r.result.status_code = 200) =>
                   StatusOfPositionOf(positions', r.arg.id) =
                       StatusOfPositionOf(positions, r.arg.id)
      ]_vars

\* PATCH with outcome failed has turned the position of the interview, and no
\* other position of the user, to rejected
C27_Witness ==
    /\ response.op = "patch_interview"
    /\ response.arg.outcome = Some("failed")
    /\ response.result.status_code = 200
    /\ Len(positions) = 2
    /\ \A i \in DOMAIN positions :
           /\ positions[i].user_id = response.user_id
           /\ positions[i].status = "rejected" <=>
                  \E j \in DOMAIN interviews :
                      /\ interviews[j].id = response.arg.id
                      /\ interviews[j].position_id = positions[i].id

\* C28: in every timeline the counts of applications_per_month add up to the
\* number of positions fetched, whether the period comes from the two dates
\* of the filter, from the least and greatest application_date or from the
\* current month; with a start_date after the end_date the sum is 0.
C28_TimelineCountsEveryPosition ==
    response.op = "get_timeline_statistics" =>
        LET months == response.result.applications_per_month
            total == SumSeq([i \in DOMAIN months |-> months[i].count])
        IN  /\ total = Len(ReqPositions)
            /\ (/\ ReqStartDate # None
                /\ ReqEndDate # None
                /\ ~DateLE(Get(ReqStartDate), Get(ReqEndDate))) => total = 0

\* a timeline over three fetched positions of more than one month, asked
\* with an end_date alone
C28_Witness ==
    /\ response.op = "get_timeline_statistics"
    /\ ReqStartDate = None
    /\ ReqEndDate # None
    /\ Len(ReqPositions) = 2
    /\ Len(OwnPositions(response.user_id)) = 3
    /\ Len(response.result.applications_per_month) > 1

\* the loop is at its test, in its body or behind it
InMonthLoop == response.op = "month_loop"
LoopEnded == InMonthLoop /\ response.result.pc \in {"return", "raise"}

\* C29: the month-generation loop terminates for every start and end: the
\* cursor starts at the first day of the month of start, every iteration
\* that the loop goes on from moves it forward by exactly one calendar month,
\* and the loop returns the empty sequence when the first day of the month
\* of start is after end.
C29_MonthLoopTerminates ==
    /\ [][ /\ (~InMonthLoop /\ InMonthLoop') =>
                  /\ response'.result.current =
                         D(response'.arg.start_date.year,
                           response'.arg.start_date.month, 1)
                  /\ response'.result.monthly_stats = <<>>
           /\ (InMonthLoop /\ response'.result.pc = "while") =>
                  /\ months_from(response.result.current,
                                 response'.result.current) = 1
                  /\ response'.result.current.day = 1
                  /\ ~DateLE(response'.result.current, response.result.current)
         ]_vars
    /\ [](LoopEnded =>
              (~DateLE(D(response.arg.start_date.year,
                         response.arg.start_date.month, 1),
                       response.arg.end_date)
                  => /\ response.result.pc = "return"
                     /\ response.result.monthly_stats = <<>>))
    /\ (InMonthLoop ~> LoopEnded)

\* the loop has returned after four iterations, from one year into the next
C29_Witness ==
    /\ LoopEnded
    /\ response.result.pc = "return"
    /\ Len(response.result.monthly_stats) = 4
    /\ response.arg.start_date.year < response.arg.end_date.year

\* no two stored users have the same e-mail
EmailsUnique ==
    \A i, j \in DOMAIN users : i # j => users[i].email # users[j].email

\* C30: e-mails of users stay unique under every interleaving of
\* registrations: of the registrations with one e-mail that have passed the
\* existence check at most one commits, every other one is answered 409
\* "Email already registered" and changes nothing, and a registration for an
\* e-mail that a user has already neither adds nor changes a user.
C30_EmailsStayUnique ==
    [][ /\ EmailsUnique'
        /\ users' # users =>
               /\ Len(users') = Len(users) + 1
               /\ SubSeq(users', 1, Len(users)) = users
               /\ \A i \in DOMAIN users : users[i].email # users'[Len(users')].email
        /\ \A r \in Requests :
               (sessions[r].pc # "done" /\ sessions'[r].pc = "done") =>
                   IF \E i \in DOMAIN users : users[i].email = Get(sessions[r].email)
                   THEN /\ sessions'[r].status_code = Some(409)
                        /\ sessions'[r].detail = <<"Email already registered">>
                        /\ users' = users
                   ELSE /\ sessions'[r].status_code = Some(201)
                        /\ users' = Append(users, users'[Len(users')])
                        /\ users'[Len(users')].email = Get(sessions[r].email)
        /\ \A r, q \in Requests :
               (/\ r # q
                /\ sessions'[r].pc = "done"
                /\ sessions'[q].pc = "done"
                /\ sessions'[r].email = sessions'[q].email) =>
                   ~(sessions'[r].status_code = Some(201)
                        /\ sessions'[q].status_code = Some(201))
      ]_vars

\* two registrations with one e-mail have both found no user with it; one
\* has committed and the other, refused on its commit, is answered 409
C30_Witness ==
    \E r, q \in Requests :
        /\ r # q
        /\ sessions[r].pc = "done"
        /\ sessions[q].pc = "done"
        /\ sessions[r].email = sessions[q].email
        /\ sessions[r].status_code = Some(201)
        /\ sessions[q].status_code = Some(409)
        /\ sessions[q].existing_user = None
        /\ Len(users) = 1
====
